---- MODULE Spec2Model ----
(***************************************************************************)
(* A model of the TransactionSimulator of the Polygon MCP server           *)
(* (transaction-simulation.js) and of the error classes it throws          *)
(* (errors.js).  Every public operation is a sequence of steps, one per    *)
(* RPC round trip (await); the response of the chain node to each round    *)
(* trip is chosen nondeterministically.                                    *)
(*                                                                         *)
(* Representation.                                                         *)
(*  - An optional numeric field of a JavaScript object is <<>> when the    *)
(*    field is undefined and <<n>> when it holds the number n.             *)
(*  - An optional address is the string "undefined" or the address.        *)
(*  - Call data is a record: whether the field is defined, the leading     *)
(*    4-byte selector, and the sequence of 32-byte argument words after it.*)
(*  - Gas prices and gas costs are counted in whole gwei, so that they fit *)
(*    the model checker's integers; their wei forms are digit strings.     *)
(*  - gasUsed, a decimal string in the code, is kept as the integer it     *)
(*    prints.                                                              *)
(***************************************************************************)
EXTENDS Integers, Sequences, FiniteSets, TLC

VARIABLES op, pc, req, tx, res, ret, err, calls, wallet, obs, loc, self, other

vars == <<op, pc, req, tx, res, ret, err, calls, wallet, obs, loc, self, other>>

----------------------------------------------------------------------------
(* Bounds of the model *)

MaxEvents == 2

----------------------------------------------------------------------------
(* JavaScript values *)

UNDEF == "undefined"
NULL == "null"
Undefined == <<>>

\* !!x for a numeric (number or bigint) field: undefined and 0 are falsy
Truthy(f) == f # Undefined /\ f[1] # 0

\* !!x for an address field
Present(a) == a # UNDEF

----------------------------------------------------------------------------
(* Program constants *)

DEFAULT_GAS_LIMIT == 300000
GAS_BUFFER_NUMERATOR == 120
GAS_BUFFER_DENOMINATOR == 100
FALLBACK_GAS_PRICE_GWEI == 50
DEFAULT_DECIMALS == 18
DEFAULT_SYMBOL == "Unknown"
ERC20_TRANSFER_SIGNATURE == "0xa9059cbb"

----------------------------------------------------------------------------
(* ethers' formatUnits: an integer scaled by a number of decimals, printed *)
(* with at least one fractional digit and no other trailing zero           *)

DigitChars == <<"0", "1", "2", "3", "4", "5", "6", "7", "8", "9">>

RECURSIVE Digits(_)
Digits(n) == IF n < 10 THEN <<n>> ELSE Digits(n \div 10) \o <<n % 10>>

RECURSIVE Zeros(_)
Zeros(k) == IF k <= 0 THEN <<>> ELSE <<0>> \o Zeros(k - 1)

RECURSIVE JoinDigits(_)
JoinDigits(ds) ==
  IF ds = <<>> THEN "" ELSE DigitChars[Head(ds) + 1] \o JoinDigits(Tail(ds))

RECURSIVE StripTrailingZeros(_)
StripTrailingZeros(ds) ==
  IF Len(ds) > 1 /\ ds[Len(ds)] = 0
  THEN StripTrailingZeros(SubSeq(ds, 1, Len(ds) - 1))
  ELSE ds

FormatDigits(neg, ds, decimals) ==
  LET sign == IF neg THEN "-" ELSE ""
      padded == IF Len(ds) <= decimals
                THEN Zeros(decimals + 1 - Len(ds)) \o ds ELSE ds
      idx == Len(padded) - decimals
      whole == SubSeq(padded, 1, idx)
      frac == StripTrailingZeros(SubSeq(padded, idx + 1, Len(padded)))
  IN IF decimals = 0
     THEN sign \o JoinDigits(ds)
     ELSE sign \o JoinDigits(whole) \o "." \o JoinDigits(frac)

FormatUnits(value, decimals) ==
  FormatDigits(value < 0, Digits(IF value < 0 THEN -value ELSE value), decimals)

----------------------------------------------------------------------------
(* JavaScript BigInt: a sign and the magnitude as a sequence of limbs of    *)
(* nine decimal digits, most significant first, without leading zero limbs; *)
(* zero is never negative.  Addition and subtraction work limb by limb with *)
(* carry and borrow, so no value is too large for them.                     *)

LimbDigits == 9
LimbBase == 10 ^ LimbDigits

Front(ls) == IF ls = <<>> THEN <<>> ELSE SubSeq(ls, 1, Len(ls) - 1)
LastLimb(ls) == IF ls = <<>> THEN 0 ELSE ls[Len(ls)]

RECURSIVE StripLeadingZeros(_)
StripLeadingZeros(ls) ==
  IF Len(ls) > 1 /\ ls[1] = 0 THEN StripLeadingZeros(Tail(ls)) ELSE ls

\* a + b + carry on magnitudes
RECURSIVE MagAdd(_, _, _)
MagAdd(a, b, carry) ==
  IF a = <<>> /\ b = <<>>
  THEN (IF carry = 0 THEN <<>> ELSE <<carry>>)
  ELSE LET sum == LastLimb(a) + LastLimb(b) + carry
       IN MagAdd(Front(a), Front(b), sum \div LimbBase) \o <<sum % LimbBase>>

\* a - b - borrow on magnitudes, for a >= b
RECURSIVE MagSub(_, _, _)
MagSub(a, b, borrow) ==
  IF a = <<>> THEN <<>>
  ELSE LET diff == LastLimb(a) - LastLimb(b) - borrow
       IN MagSub(Front(a), Front(b), IF diff < 0 THEN 1 ELSE 0)
            \o <<IF diff < 0 THEN diff + LimbBase ELSE diff>>

\* a < b on magnitudes without leading zeros
RECURSIVE MagLess(_, _)
MagLess(a, b) ==
  IF Len(a) # Len(b) THEN Len(a) < Len(b)
  ELSE IF a = <<>> THEN FALSE
  ELSE IF Head(a) # Head(b) THEN Head(a) < Head(b)
  ELSE MagLess(Tail(a), Tail(b))

BigOf(neg, mag) ==
  LET m == StripLeadingZeros(mag)
  IN [neg |-> neg /\ m # <<0>>, mag |-> m]

\* BigInt(n) for a number n
BigInt(n) ==
  LET abs == IF n < 0 THEN -n ELSE n
  IN BigOf(n < 0, <<abs \div LimbBase, abs % LimbBase>>)

BigZero == BigInt(0)

\* a + b
BigAdd(a, b) ==
  IF a.neg = b.neg THEN BigOf(a.neg, MagAdd(a.mag, b.mag, 0))
  ELSE IF MagLess(a.mag, b.mag) THEN BigOf(b.neg, MagSub(b.mag, a.mag, 0))
  ELSE BigOf(a.neg, MagSub(a.mag, b.mag, 0))

\* a - b
BigSub(a, b) == BigAdd(a, BigOf(~b.neg, b.mag))

\* a > 0n
BigPositive(a) == ~a.neg /\ a # BigZero

\* the decimal digits of a magnitude: every limb but the first is padded
RECURSIVE LimbsDigits(_, _)
LimbsDigits(ls, first) ==
  IF ls = <<>> THEN <<>>
  ELSE LET ds == Digits(Head(ls))
       IN (IF first THEN ds ELSE Zeros(LimbDigits - Len(ds)) \o ds)
            \o LimbsDigits(Tail(ls), FALSE)

BigDigits(a) == LimbsDigits(a.mag, TRUE)

\* value.toString()
BigToString(a) == (IF a.neg THEN "-" ELSE "") \o JoinDigits(BigDigits(a))

\* formatUnits of a BigInt
FormatUnitsBig(value, decimals) == FormatDigits(value.neg, BigDigits(value), decimals)

----------------------------------------------------------------------------
(* Inputs: the requests a caller passes and the responses of the chain node *)

NoData == [defined |-> FALSE, selector |-> "", args |-> <<>>]
CallData(sel, args) == [defined |-> TRUE, selector |-> sel, args |-> args]

SENDER == "0xSender"
SIGNER == "0xSigner"
TOKEN == "0xToken"

RequestData ==
  { NoData,
    CallData(ERC20_TRANSFER_SIGNATURE, <<7, 1500>>),
    CallData(ERC20_TRANSFER_SIGNATURE, <<7>>),
    CallData("0x23b872dd", <<7, 9, 1500>>) }

Requests ==
  [ from : {UNDEF, SENDER},
    to : {UNDEF, TOKEN},
    value : {Undefined, <<1500>>},
    data : RequestData,
    gasLimit : {Undefined, <<0>>, <<50000>>},
    gasPrice : {Undefined, <<0>>, <<30>>},
    maxFeePerGas : {Undefined, <<40>>},
    maxPriorityFeePerGas : {Undefined, <<2>>} ]

Ok(v) == [ok |-> TRUE, value |-> v, message |-> "", data |-> ""]
Fail(m) == [ok |-> FALSE, value |-> 0, message |-> m, data |-> ""]
FailData(m, d) == [ok |-> FALSE, value |-> 0, message |-> m, data |-> d]
FailOf(m, v) == [ok |-> FALSE, value |-> v, message |-> m, data |-> ""]

\* provider.estimateGas
EstimateOutcomes == {Ok(21003), Ok(64999), Fail("cannot estimate gas")}

\* provider.getFeeData
FeeData(gp, mf, mp) ==
  [gasPrice |-> gp, maxFeePerGas |-> mf, maxPriorityFeePerGas |-> mp]
FeeDataOutcomes ==
  { Ok(FeeData(<<31>>, <<45>>, <<3>>)),
    Ok(FeeData(<<31>>, Undefined, Undefined)),
    Ok(FeeData(<<0>>, Undefined, Undefined)),
    Ok(FeeData(Undefined, Undefined, Undefined)),
    FailOf("could not fetch fee data", FeeData(Undefined, Undefined, Undefined)) }

\* provider.getBlockNumber
BlockNumberOutcomes == {Ok(1000), Fail("network unreachable")}

\* provider.call: the error of a failed call may carry revert data
RevertTexts == {"execution reverted: paused"}
CallOutcomes ==
  { Ok(0),
    Fail("missing revert data"),
    FailData("call exception", "execution reverted: paused"),
    FailData("call exception", "0x4e487b71") }

\* decodedError.includes('revert')
IncludesRevert(d) == d \in RevertTexts

\* tokenContract.symbol(), tokenContract.decimals()
SymbolOutcomes == {Ok("TEST"), FailOf("symbol() reverted", "")}
DecimalsOutcomes == {Ok(6), Fail("decimals() reverted")}

\* provider.getTransactionCount
NonceOutcomes == {Ok(5), Ok(33), Fail("could not fetch nonce")}

\* provider.network: undefined, or a network with its chain id
NetworkOutcomes == {Undefined, <<137>>, <<10>>}

----------------------------------------------------------------------------
(* State of an operation that has not started *)

NoRequest == [none |-> TRUE]
NoResult == [none |-> TRUE]
NoError == [none |-> TRUE]
NoObs ==
  [ given |-> NoRequest,
    prefill |-> "unasked", prefillE |-> 0,
    call |-> "unasked", callTx |-> NoRequest, callMessage |-> NULL,
    reest |-> "unasked", reestE |-> 0,
    symbol |-> "unasked", decimals |-> "unasked",
    nonce |-> "unasked", network |-> "unasked",
    caught |-> FALSE ]
NoLoc == [none |-> TRUE]

----------------------------------------------------------------------------
(* simulateTransaction *)

\* a buffer rounded to the nearest unit instead of floored
BufferedGasLimit_Rounded(gasEstimate) ==
  (gasEstimate * 120 + 50) \div 100

\* gasEstimateBigInt * 120n / 100n
BufferedGasLimit(gasEstimate) ==
  (gasEstimate * GAS_BUFFER_NUMERATOR) \div GAS_BUFFER_DENOMINATOR

\* a working object that is the caller's object itself, not a copy of it
CallerObject_Aliased(transaction, working) == working

\* the caller's object after a write to the working copy: the copy made by
\* { ...transaction } is another object, so the write does not reach it
CallerObject(transaction, working) == transaction

\* const txToSimulate = { ...transaction }; from filled in from the wallet
CloneWithFrom(transaction) ==
  IF ~Present(transaction.from) /\ wallet.connected
  THEN [transaction EXCEPT !.from = wallet.address]
  ELSE transaction

\* if (!txToSimulate.gasLimit)
NeedsGasLimit(t) == ~Truthy(t.gasLimit)

\* if (!txToSimulate.gasPrice && !txToSimulate.maxFeePerGas)
NeedsFeeData(t) == ~Truthy(t.gasPrice) /\ ~Truthy(t.maxFeePerGas)

InitialResult ==
  [ success |-> TRUE,
    gasUsed |-> 0,
    logs |-> <<>>,
    tokenTransfers |-> <<>>,
    contractInteractions |-> <<>>,
    errorMessage |-> NULL,
    stateChanges |-> <<>> ]

\* a catch-all handler that drops the message of the error it caught
CatchAllResult_NoMessage(message) ==
  [ success |-> FALSE,
    errorMessage |-> NULL,
    gasUsed |-> 0,
    logs |-> <<>>,
    tokenTransfers |-> <<>>,
    contractInteractions |-> <<>> ]

\* the result of the catch-all handler of simulateTransaction
CatchAllResult(message) ==
  [ success |-> FALSE,
    errorMessage |-> message,
    gasUsed |-> 0,
    logs |-> <<>>,
    tokenTransfers |-> <<>>,
    contractInteractions |-> <<>> ]

\* a failed call that records no message unless the payload is a revert
CallErrorMessage_RevertOnly(error) ==
  IF error.data # "" /\ IncludesRevert(error.data)
  THEN "Transaction would revert: " \o error.data
  ELSE NULL

\* the message recorded when provider.call fails
CallErrorMessage(error) ==
  IF error.data # "" /\ IncludesRevert(error.data)
  THEN "Transaction would revert: " \o error.data
  ELSE error.message

\* txToSimulate.gasPrice || txToSimulate.maxFeePerGas || parseUnits('50', 'gwei')
EffectiveGasPrice(t) ==
  IF Truthy(t.gasPrice) THEN t.gasPrice[1]
  ELSE IF Truthy(t.maxFeePerGas) THEN t.maxFeePerGas[1]
  ELSE FALLBACK_GAS_PRICE_GWEI

\* the three forms of a cost counted in gwei
GasCostOf(costGwei) ==
  LET weiDigits == IF costGwei = 0 THEN <<0>> ELSE Digits(costGwei) \o Zeros(9)
  IN [ wei |-> JoinDigits(weiDigits),
       gwei |-> FormatDigits(FALSE, weiDigits, 9),
       ether |-> FormatDigits(FALSE, weiDigits, 18) ]

\* simulationResult.gasCost = { wei, gwei, ether }
WithGasCost(t, r) ==
  [ success |-> r.success,
    gasUsed |-> r.gasUsed,
    logs |-> r.logs,
    tokenTransfers |-> r.tokenTransfers,
    contractInteractions |-> r.contractInteractions,
    errorMessage |-> r.errorMessage,
    stateChanges |-> r.stateChanges,
    gasCost |-> GasCostOf(r.gasUsed * EffectiveGasPrice(t)) ]

\* iface.parseTransaction({ data }) decodes (address, uint256)
Decodable(data) == Len(data.args) >= 2

\* getAddress of a decoded address word
AddressOfWord(w) == "0x" \o ToString(w)

\* a guard that forgets to require a `to`
IsERC20TransferCall_IgnoresTo(t) ==
  t.data.defined /\ t.data.selector = ERC20_TRANSFER_SIGNATURE

\* the guard of detectTokenTransfers
IsERC20TransferCall(t) ==
  Present(t.to) /\ t.data.defined /\ t.data.selector = ERC20_TRANSFER_SIGNATURE

\* the entry detectERC20Transfer pushes
TokenTransferEntry(t, symbol, decimals) ==
  [ token |-> t.to,
    symbol |-> symbol,
    from |-> t.from,
    to |-> AddressOfWord(t.data.args[1]),
    amount |-> FormatUnits(t.data.args[2], decimals),
    rawAmount |-> ToString(t.data.args[2]),
    type |-> "ERC20" ]

\* if (!txToSimulate.to && txToSimulate.data)
IsCreation(t) == ~Present(t.to) /\ t.data.defined

\* the characters of the call data as a hex string: "0x", selector, words
DataLength(data) == 10 + 64 * Len(data.args)

\* Buffer.from(chainId + from + nonce padded to 64, 'hex').slice(-20): an odd
\* number of hex characters drops the last one, so the last 20 bytes are the
\* nonce, shifted by one hex digit when the chain id has an odd number of digits
EstimatedAddress(chainId, from, nonce) ==
  IF Len(Digits(chainId)) % 2 = 0 THEN nonce ELSE nonce \div 16

CreationEntry(t, chainId, nonce) ==
  [ type |-> "creation",
    bytecode |-> [ selector |-> t.data.selector,
                   truncated |-> DataLength(t.data) > 64 ],
    estimatedAddress |-> EstimatedAddress(chainId, t.from, nonce),
    constructorArgs |-> IF DataLength(t.data) <= 2 THEN <<>>
                        ELSE [ raw |-> "last 43 characters",
                               decoded |-> "Constructor arguments detection requires ABI" ] ]

\* an entry that keeps the working copy of the request on the instance
\* (this.txToSimulate) instead of in a local
SimulateBegin_WorkingCopyOnInstance ==
  /\ UNCHANGED other
  /\ op = "idle"
  /\ \E transaction \in Requests :
       LET t == CloneWithFrom(transaction)
       IN /\ req' = CallerObject(transaction, t)
          /\ tx' = t
          /\ self' = [f \in DOMAIN self \cup {"txToSimulate"} |->
                        IF f = "txToSimulate" THEN t ELSE self[f]]
          /\ pc' = IF NeedsGasLimit(t) THEN "prefill"
                   ELSE IF NeedsFeeData(t) THEN "fee" ELSE "block"
          /\ res' = IF NeedsGasLimit(t) \/ NeedsFeeData(t) THEN NoResult ELSE InitialResult
          /\ obs' = [NoObs EXCEPT !.given = transaction]
  /\ op' = "simulateTransaction"
  /\ UNCHANGED <<ret, err, calls, wallet, loc>>

SimulateBegin ==
  /\ UNCHANGED <<self, other>>
  /\ op = "idle"
  /\ \E transaction \in Requests :
       LET t == CloneWithFrom(transaction)
       IN /\ req' = CallerObject(transaction, t)
          /\ tx' = t
          /\ pc' = IF NeedsGasLimit(t) THEN "prefill"
                   ELSE IF NeedsFeeData(t) THEN "fee" ELSE "block"
          /\ res' = IF NeedsGasLimit(t) \/ NeedsFeeData(t) THEN NoResult ELSE InitialResult
          /\ obs' = [NoObs EXCEPT !.given = transaction]
  /\ op' = "simulateTransaction"
  /\ UNCHANGED <<ret, err, calls, wallet, loc>>

\* the catch-all handler: return a failed result
SimCatchAll(message) ==
  /\ res' = CatchAllResult(message)
  /\ ret' = "returned"
  /\ pc' = "done"

\* a pre-fill step for which a failed estimate is fatal to the simulation
SimPrefillEstimate_FailureIsFatal ==
  /\ UNCHANGED <<self, other>>
  /\ op = "simulateTransaction" /\ pc = "prefill"
  /\ \E out \in EstimateOutcomes :
       IF out.ok
       THEN /\ tx' = [tx EXCEPT !.gasLimit = <<BufferedGasLimit(out.value)>>]
            /\ obs' = [obs EXCEPT !.prefill = "ok", !.prefillE = out.value]
            /\ pc' = IF NeedsFeeData(tx') THEN "fee" ELSE "block"
            /\ res' = IF NeedsFeeData(tx') THEN NoResult ELSE InitialResult
            /\ UNCHANGED ret
       ELSE /\ SimCatchAll("Gas estimation failed: " \o out.message)
            /\ obs' = [obs EXCEPT !.prefill = "fail", !.caught = TRUE]
            /\ UNCHANGED tx
  /\ req' = CallerObject(req, tx')
  /\ calls' = Append(calls, "estimateGas")
  /\ UNCHANGED <<op, err, wallet, loc>>

SimPrefillEstimate ==
  /\ UNCHANGED <<self, other>>
  /\ op = "simulateTransaction" /\ pc = "prefill"
  /\ \E out \in EstimateOutcomes :
       /\ tx' = [tx EXCEPT !.gasLimit =
                   IF out.ok THEN <<BufferedGasLimit(out.value)>>
                   ELSE <<DEFAULT_GAS_LIMIT>>]
       /\ obs' = [obs EXCEPT !.prefill = IF out.ok THEN "ok" ELSE "fail",
                             !.prefillE = out.value]
       /\ pc' = IF NeedsFeeData(tx') THEN "fee" ELSE "block"
       /\ res' = IF NeedsFeeData(tx') THEN NoResult ELSE InitialResult
  /\ req' = CallerObject(req, tx')
  /\ calls' = Append(calls, "estimateGas")
  /\ UNCHANGED <<op, ret, err, wallet, loc>>

SimFeeData ==
  /\ UNCHANGED <<self, other>>
  /\ op = "simulateTransaction" /\ pc = "fee"
  /\ calls' = Append(calls, "getFeeData")
  /\ \E out \in FeeDataOutcomes :
       IF ~out.ok
       THEN SimCatchAll(out.message) /\ obs' = [obs EXCEPT !.caught = TRUE]
            /\ UNCHANGED tx
       ELSE LET feeData == out.value IN
            IF Truthy(feeData.maxFeePerGas)
            THEN IF feeData.maxPriorityFeePerGas = Undefined
                 THEN /\ tx' = [tx EXCEPT !.maxFeePerGas = feeData.maxFeePerGas]
                      /\ SimCatchAll("Cannot convert null to a BigInt")
                      /\ obs' = [obs EXCEPT !.caught = TRUE]
                 ELSE /\ tx' = [tx EXCEPT
                                  !.maxFeePerGas = feeData.maxFeePerGas,
                                  !.maxPriorityFeePerGas = feeData.maxPriorityFeePerGas]
                      /\ res' = InitialResult
                      /\ pc' = "block"
                      /\ UNCHANGED <<ret, obs>>
            ELSE IF feeData.gasPrice = Undefined
                 THEN /\ SimCatchAll("Cannot convert null to a BigInt")
                      /\ obs' = [obs EXCEPT !.caught = TRUE]
                      /\ UNCHANGED tx
                 ELSE /\ tx' = [tx EXCEPT !.gasPrice = feeData.gasPrice]
                      /\ res' = InitialResult
                      /\ pc' = "block"
                      /\ UNCHANGED <<ret, obs>>
  /\ req' = CallerObject(req, tx')
  /\ UNCHANGED <<op, err, wallet, loc>>

SimBlockNumber ==
  /\ UNCHANGED <<self, other>>
  /\ op = "simulateTransaction" /\ pc = "block"
  /\ calls' = Append(calls, "getBlockNumber")
  /\ \E out \in BlockNumberOutcomes :
       IF out.ok
       THEN pc' = "call" /\ UNCHANGED <<res, ret, obs>>
       ELSE SimCatchAll(out.message) /\ obs' = [obs EXCEPT !.caught = TRUE]
  /\ UNCHANGED <<op, req, tx, err, wallet, loc>>

SimCall ==
  /\ UNCHANGED <<self, other>>
  /\ op = "simulateTransaction" /\ pc = "call"
  /\ calls' = Append(calls, "call")
  /\ \E out \in CallOutcomes :
       /\ res' = IF out.ok
                 THEN [res EXCEPT !.success = TRUE]
                 ELSE [res EXCEPT !.success = FALSE,
                                  !.errorMessage = CallErrorMessage(out)]
       /\ obs' = [obs EXCEPT !.call = IF out.ok THEN "ok" ELSE "fail",
                             !.callTx = tx,
                             !.callMessage = res'.errorMessage]
  /\ pc' = "reest"
  /\ UNCHANGED <<op, req, tx, ret, err, wallet, loc>>

\* what follows the await of detectTokenTransfers: the creation step, or the
\* gas cost and the return
AfterDetect(r) ==
  IF IsCreation(tx)
  THEN /\ res' = r
       /\ pc' = "nonce"
       /\ UNCHANGED ret
  ELSE /\ res' = WithGasCost(tx, r)
       /\ pc' = "done"
       /\ ret' = "returned"

\* a re-estimate whose failure always replaces the recorded message
ReestimatedResult_Overwrites(r, t, out) ==
  IF out.ok
  THEN [r EXCEPT !.gasUsed = out.value]
  ELSE [r EXCEPT
          !.gasUsed = IF t.gasLimit # Undefined THEN t.gasLimit[1] ELSE 0,
          !.errorMessage = "Gas estimation failed: " \o out.message]

\* the result after the gas re-estimate: gasUsed is the estimate, or on
\* failure txToSimulate.gasLimit?.toString() || '0', with the failure
\* recorded if (!simulationResult.errorMessage)
ReestimatedResult(r, t, out) ==
  IF out.ok
  THEN [r EXCEPT !.gasUsed = out.value]
  ELSE [r EXCEPT
          !.gasUsed = IF t.gasLimit # Undefined THEN t.gasLimit[1] ELSE 0,
          !.errorMessage =
            IF r.errorMessage = NULL \/ r.errorMessage = ""
            THEN "Gas estimation failed: " \o out.message
            ELSE r.errorMessage]

SimReestimate ==
  /\ UNCHANGED <<self, other>>
  /\ op = "simulateTransaction" /\ pc = "reest"
  /\ calls' = Append(calls, "estimateGas")
  /\ \E out \in EstimateOutcomes :
       LET r == ReestimatedResult(res, tx, out)
       IN /\ obs' = [obs EXCEPT !.reest = IF out.ok THEN "ok" ELSE "fail",
                                !.reestE = out.value]
          /\ IF ~IsERC20TransferCall(tx)
             THEN \* detectTokenTransfers returns at once; awaited at 855
                  res' = r /\ pc' = "afterDetect"
             ELSE IF ~Decodable(tx.data)
             THEN \* parseTransaction throws; detectERC20Transfer awaited at 989
                  res' = r /\ pc' = "detected"
             ELSE \/ \* symbol() is issued
                     res' = r /\ pc' = "symbol"
                  \/ \* the Contract constructor throws: both defaults are
                     \* kept and the entry is pushed
                     /\ res' = [r EXCEPT !.tokenTransfers =
                          Append(@, TokenTransferEntry(tx, DEFAULT_SYMBOL, DEFAULT_DECIMALS))]
                     /\ pc' = "detected"
  /\ UNCHANGED <<op, req, tx, ret, err, wallet, loc>>

\* a symbol() lookup without its own catch: a failure lands in the catch of
\* detectERC20Transfer and nothing is pushed
SimSymbol_AbortsOnFailure ==
  /\ UNCHANGED <<self, other>>
  /\ op = "simulateTransaction" /\ pc = "symbol"
  /\ \E out \in SymbolOutcomes :
          /\ calls' = Append(calls, "symbol")
          /\ obs' = [obs EXCEPT !.symbol = IF out.ok THEN "ok" ELSE "fail"]
          /\ IF out.ok
             THEN /\ loc' = [symbol |-> out.value]
                  /\ pc' = "decimals"
             ELSE pc' = "detected" /\ UNCHANGED loc
  /\ UNCHANGED <<op, req, tx, res, ret, err, wallet>>

\* the answer of tokenContract.symbol().catch(() => 'Unknown'); decimals()
\* is issued
SimSymbol ==
  /\ UNCHANGED <<self, other>>
  /\ op = "simulateTransaction" /\ pc = "symbol"
  /\ \E out \in SymbolOutcomes :
       /\ calls' = Append(calls, "symbol")
       /\ loc' = [symbol |-> IF out.ok THEN out.value ELSE DEFAULT_SYMBOL]
       /\ obs' = [obs EXCEPT !.symbol = IF out.ok THEN "ok" ELSE "fail"]
       /\ pc' = "decimals"
  /\ UNCHANGED <<op, req, tx, res, ret, err, wallet>>

\* the answer of tokenContract.decimals().catch(() => 18), then the push;
\* detectERC20Transfer is over and its caller is still suspended at its await
SimDecimals ==
  /\ UNCHANGED <<self, other>>
  /\ op = "simulateTransaction" /\ pc = "decimals"
  /\ calls' = Append(calls, "decimals")
  /\ \E out \in DecimalsOutcomes :
       /\ obs' = [obs EXCEPT !.decimals = IF out.ok THEN "ok" ELSE "fail"]
       /\ res' = [res EXCEPT !.tokenTransfers =
            Append(@, TokenTransferEntry(tx, loc.symbol,
                        IF out.ok THEN out.value ELSE DEFAULT_DECIMALS))]
  /\ pc' = "detected"
  /\ UNCHANGED <<op, req, tx, ret, err, wallet, loc>>

\* detectTokenTransfers resumes after `await this.detectERC20Transfer(...)`
\* and returns; simulateTransaction is still suspended at its await
SimDetectReturn ==
  /\ UNCHANGED <<self, other>>
  /\ op = "simulateTransaction" /\ pc = "detected"
  /\ pc' = "afterDetect"
  /\ UNCHANGED <<op, req, tx, res, ret, err, calls, wallet, obs, loc>>

\* simulateTransaction resumes after `await this.detectTokenTransfers(...)`:
\* the creation test, then getTransactionCount is issued, or the gas cost is
\* added and the result returned
SimCreationTest ==
  /\ UNCHANGED <<self, other>>
  /\ op = "simulateTransaction" /\ pc = "afterDetect"
  /\ AfterDetect(res)
  /\ UNCHANGED <<op, req, tx, err, calls, wallet, obs, loc>>

\* the contract creation step: nonce, estimated address, the interaction entry
SimNonce ==
  /\ UNCHANGED <<self, other>>
  /\ op = "simulateTransaction" /\ pc = "nonce"
  /\ calls' = Append(calls, "getTransactionCount")
  /\ \E out \in NonceOutcomes, network \in NetworkOutcomes :
       LET seen == [obs EXCEPT
                      !.nonce = IF out.ok THEN "ok" ELSE "fail",
                      !.network = IF ~out.ok THEN "unasked"
                                  ELSE IF network = Undefined THEN "undefined"
                                  ELSE "known"]
       IN
       IF ~out.ok
       THEN SimCatchAll(out.message) /\ obs' = [seen EXCEPT !.caught = TRUE]
       ELSE IF network = Undefined
       THEN /\ SimCatchAll("Cannot read properties of undefined (reading 'chainId')")
            /\ obs' = [seen EXCEPT !.caught = TRUE]
       ELSE IF ~Present(tx.from)
       THEN /\ SimCatchAll("Cannot read properties of undefined (reading 'slice')")
            /\ obs' = [seen EXCEPT !.caught = TRUE]
       ELSE /\ res' = WithGasCost(tx, [res EXCEPT !.contractInteractions =
                        Append(@, CreationEntry(tx, network[1], out.value))])
            /\ pc' = "done"
            /\ ret' = "returned"
            /\ obs' = seen
  /\ UNCHANGED <<op, req, tx, err, wallet, loc>>

----------------------------------------------------------------------------
(* errors.js *)

\* new PolygonMCPError(code, message, details), renamed by the subclass
TransactionError(code, message, details) ==
  [name |-> "TransactionError", code |-> code, message |-> message, details |-> details]

createTransactionError(code, message, details) ==
  TransactionError(code, message, details)

\* an operation ends by throwing
Throw(error) ==
  /\ err' = error
  /\ ret' = "thrown"
  /\ pc' = "done"

----------------------------------------------------------------------------
(* estimateGas *)

EstimateGasResult(gasEstimate) ==
  [ gasEstimate |-> gasEstimate,
    gasLimit |-> BufferedGasLimit(gasEstimate),
    recommendedGasLimit |-> BufferedGasLimit(gasEstimate) ]

EstimateBegin ==
  /\ UNCHANGED <<self, other>>
  /\ op = "idle"
  /\ \E transaction \in Requests :
       /\ req' = CallerObject(transaction, CloneWithFrom(transaction))
       /\ tx' = CloneWithFrom(transaction)
       /\ obs' = [NoObs EXCEPT !.given = transaction]
  /\ op' = "estimateGas"
  /\ pc' = "estimate"
  /\ UNCHANGED <<res, ret, err, calls, wallet, loc>>

\* an estimateGas that falls back to the default limit, as simulateTransaction does
EstimateCall_ReturnsDefault ==
  /\ UNCHANGED <<self, other>>
  /\ op = "estimateGas" /\ pc = "estimate"
  /\ calls' = Append(calls, "estimateGas")
  /\ \E out \in EstimateOutcomes :
       /\ obs' = [obs EXCEPT !.prefill = IF out.ok THEN "ok" ELSE "fail",
                             !.prefillE = out.value]
       /\ res' = IF out.ok THEN EstimateGasResult(out.value)
                 ELSE [ gasEstimate |-> DEFAULT_GAS_LIMIT,
                        gasLimit |-> DEFAULT_GAS_LIMIT,
                        recommendedGasLimit |-> DEFAULT_GAS_LIMIT ]
       /\ ret' = "returned"
       /\ pc' = "done"
       /\ UNCHANGED err
  /\ UNCHANGED <<op, req, tx, wallet, loc>>

EstimateCall ==
  /\ UNCHANGED <<self, other>>
  /\ op = "estimateGas" /\ pc = "estimate"
  /\ calls' = Append(calls, "estimateGas")
  /\ \E out \in EstimateOutcomes :
       /\ obs' = [obs EXCEPT !.prefill = IF out.ok THEN "ok" ELSE "fail",
                             !.prefillE = out.value]
       /\ IF out.ok
          THEN /\ res' = EstimateGasResult(out.value)
               /\ ret' = "returned"
               /\ pc' = "done"
               /\ UNCHANGED err
          ELSE /\ Throw(createTransactionError("TRANSACTION_FAILED",
                         "Gas estimation failed: " \o out.message,
                         [transaction |-> req]))
               /\ UNCHANGED res
  /\ UNCHANGED <<op, req, tx, wallet, loc>>

----------------------------------------------------------------------------
(* analyzeTransaction *)

TxHashes == {"0xhash1", "0xhash2"}

NullTransaction == [found |-> FALSE, from |-> UNDEF, to |-> NULL, value |-> 0, gasPrice |-> 0]
KnownTransactions ==
  [ found : {TRUE}, from : {SENDER}, to : {NULL, TOKEN},
    value : {0, 1500}, gasPrice : {30, 45} ]

\* provider.getTransaction
TransactionOutcomes ==
  {Ok(t) : t \in KnownTransactions} \cup
  {Ok(NullTransaction), FailOf("could not fetch transaction", NullTransaction)}

NullReceipt == [found |-> FALSE, status |-> 0, gasUsed |-> 0, blockNumber |-> 0, logs |-> <<>>]
Receipts ==
  [ found : {TRUE}, status : {0, 1}, gasUsed : {21000, 52000},
    blockNumber : {990}, logs : {<<>>, <<"log", "log">>} ]

\* provider.getTransactionReceipt
ReceiptOutcomes ==
  {Ok(r) : r \in Receipts} \cup
  {Ok(NullReceipt), FailOf("could not fetch receipt", NullReceipt)}

\* { wei, ether } of an amount counted in gwei
ValueOf(amountGwei) ==
  LET weiDigits == IF amountGwei = 0 THEN <<0>> ELSE Digits(amountGwei) \o Zeros(9)
  IN [wei |-> JoinDigits(weiDigits), ether |-> FormatDigits(FALSE, weiDigits, 18)]

\* { wei, gwei } of a gas price counted in gwei
GasPriceOf(priceGwei) ==
  LET weiDigits == IF priceGwei = 0 THEN <<0>> ELSE Digits(priceGwei) \o Zeros(9)
  IN [wei |-> JoinDigits(weiDigits), gwei |-> FormatDigits(FALSE, weiDigits, 9)]

\* a status that reads the flag of a receipt that may be missing
StatusOf_NoPending(receipt) ==
  IF receipt.status # 0 THEN "Success" ELSE "Failed"

\* receipt ? (receipt.status ? 'Success' : 'Failed') : 'Pending'
StatusOf(receipt) ==
  IF receipt.found
  THEN (IF receipt.status # 0 THEN "Success" ELSE "Failed")
  ELSE "Pending"

\* the result object analyzeTransaction builds before the gas cost
BasicAnalysis(txHash, t, receipt) ==
  [ hash |-> txHash,
    from |-> t.from,
    to |-> IF t.to # NULL THEN t.to ELSE "Contract Creation",
    value |-> ValueOf(t.value),
    gasUsed |-> IF receipt.found THEN ToString(receipt.gasUsed) ELSE "Pending",
    gasPrice |-> GasPriceOf(t.gasPrice),
    status |-> StatusOf(receipt),
    blockNumber |-> IF receipt.found THEN receipt.blockNumber ELSE "Pending",
    timestamp |-> "Unknown",
    logs |-> IF receipt.found THEN Len(receipt.logs) ELSE 0 ]

\* result.gasCost = { wei, gwei, ether }
WithAnalysisGasCost(r, t, receipt) ==
  [ hash |-> r.hash, from |-> r.from, to |-> r.to, value |-> r.value,
    gasUsed |-> r.gasUsed, gasPrice |-> r.gasPrice, status |-> r.status,
    blockNumber |-> r.blockNumber, timestamp |-> r.timestamp, logs |-> r.logs,
    gasCost |-> GasCostOf(receipt.gasUsed * t.gasPrice) ]

\* if (receipt) the gas cost is added
Analysis(txHash, t, receipt) ==
  IF receipt.found
  THEN WithAnalysisGasCost(BasicAnalysis(txHash, t, receipt), t, receipt)
  ELSE BasicAnalysis(txHash, t, receipt)

\* the catch handler of analyzeTransaction
AnalysisError(txHash, message) ==
  createTransactionError("TRANSACTION_FAILED", "Analysis failed: " \o message,
                         [txHash |-> txHash])

AnalyzeBegin ==
  /\ UNCHANGED <<self, other>>
  /\ op = "idle"
  /\ \E txHash \in TxHashes : req' = [txHash |-> txHash]
  /\ op' = "analyzeTransaction"
  /\ pc' = "getTransaction"
  /\ obs' = [transaction |-> "unasked", receipt |-> "unasked"]
  /\ UNCHANGED <<tx, res, ret, err, calls, wallet, loc>>

\* what the node answered: a record, null, or an RPC failure
AnswerKind(out) == IF ~out.ok THEN "fail" ELSE IF out.value.found THEN "found" ELSE "null"

\* a getTransaction step without the `if (!tx)` check
AnalyzeGetTransaction_NoNullCheck ==
  /\ UNCHANGED <<self, other>>
  /\ op = "analyzeTransaction" /\ pc = "getTransaction"
  /\ calls' = Append(calls, "getTransaction")
  /\ \E out \in TransactionOutcomes :
       /\ obs' = [obs EXCEPT !.transaction = AnswerKind(out)]
       /\ IF ~out.ok
          THEN Throw(AnalysisError(req.txHash, out.message)) /\ UNCHANGED loc
          ELSE /\ loc' = [tx |-> out.value]
               /\ pc' = "getReceipt"
               /\ UNCHANGED <<ret, err>>
  /\ UNCHANGED <<op, req, tx, res, wallet>>

AnalyzeGetTransaction ==
  /\ UNCHANGED <<self, other>>
  /\ op = "analyzeTransaction" /\ pc = "getTransaction"
  /\ calls' = Append(calls, "getTransaction")
  /\ \E out \in TransactionOutcomes :
       /\ obs' = [obs EXCEPT !.transaction = AnswerKind(out)]
       /\ IF ~out.ok
          THEN Throw(AnalysisError(req.txHash, out.message)) /\ UNCHANGED loc
          ELSE IF ~out.value.found
          THEN /\ Throw(AnalysisError(req.txHash, "Transaction not found: " \o req.txHash))
               /\ UNCHANGED loc
          ELSE /\ loc' = [tx |-> out.value]
               /\ pc' = "getReceipt"
               /\ UNCHANGED <<ret, err>>
  /\ UNCHANGED <<op, req, tx, res, wallet>>

AnalyzeGetReceipt ==
  /\ UNCHANGED <<self, other>>
  /\ op = "analyzeTransaction" /\ pc = "getReceipt"
  /\ calls' = Append(calls, "getTransactionReceipt")
  /\ \E out \in ReceiptOutcomes :
       /\ obs' = [obs EXCEPT !.receipt = AnswerKind(out)]
       /\ IF ~out.ok
          THEN Throw(AnalysisError(req.txHash, out.message)) /\ UNCHANGED <<res, loc>>
          ELSE /\ res' = Analysis(req.txHash, loc.tx, out.value)
               /\ loc' = [tx |-> loc.tx, receipt |-> out.value]
               /\ ret' = "returned"
               /\ pc' = "done"
               /\ UNCHANGED err
  /\ UNCHANGED <<op, req, tx, wallet>>

----------------------------------------------------------------------------
(* getTokenBalanceChanges *)

\* this.tokenAddresses, in the order of Object.entries
TokenRegistry ==
  << [symbol |-> "USDC", address |-> "0xUSDC"],
     [symbol |-> "WETH", address |-> "0xWETH"] >>

HOLDER == "0xHolder"
AddressArgs == {HOLDER, "not-an-address", UNDEF}

\* ethers' isAddress
IsAddress(a) == a \in {HOLDER, SENDER, SIGNER, TOKEN}

\* a block argument: undefined, a number, or a string of decimal digits
NoBlock == [kind |-> "undefined", n |-> 0, digits |-> <<>>]
BlockNumber(n) == [kind |-> "number", n |-> n, digits |-> <<>>]
BlockString(ds) == [kind |-> "string", n |-> 0, digits |-> ds]

BlockArgs ==
  { <<NoBlock, NoBlock>>,
    <<BlockNumber(0), BlockString(<<1, 2>>)>>,
    <<BlockString(<<0>>), BlockNumber(12)>>,
    <<BlockNumber(5), NoBlock>> }

\* !!x for a block argument: undefined, 0 and '' are falsy
BlockTruthy(b) ==
  \/ b.kind = "number" /\ b.n # 0
  \/ b.kind = "string" /\ b.digits # <<>>

RECURSIVE DigitsValue(_)
DigitsValue(ds) ==
  IF ds = <<>> THEN 0 ELSE 10 * DigitsValue(SubSeq(ds, 1, Len(ds) - 1)) + ds[Len(ds)]

\* parseInt
ParseInt(b) == IF b.kind = "number" THEN b.n ELSE DigitsValue(b.digits)

\* x ? parseInt(x) : 'latest'
ResolveBlock(b) ==
  IF BlockTruthy(b)
  THEN [latest |-> FALSE, number |-> ParseInt(b)]
  ELSE [latest |-> TRUE, number |-> 0]

\* event.args.value of a Transfer event: a small amount, and an amount of one
\* token of 18 decimals plus one unit, 1000000000000000001
EventValues == {1}
LargeValue == BigOf(FALSE, <<1, 0, 1>>)

\* the events a queryFilter returns: every list of at most MaxEvents small
\* amounts, and lists with large amounts, ten of them in the longest
SmallEventLists ==
  { s \in UNION { [1..n -> EventValues] : n \in 0..MaxEvents } :
      \A i \in 1..(Len(s) - 1) : s[i] <= s[i + 1] }
LargeEventLists ==
  { <<LargeValue>>,
    <<BigInt(1), BigInt(1), BigInt(1)>>,
    [i \in 1..10 |-> LargeValue] }
EventLists ==
  { [i \in 1..Len(s) |-> BigInt(s[i])] : s \in SmallEventLists } \cup LargeEventLists

\* tokenContract.queryFilter
QueryOutcomes ==
  {Ok(events) : events \in EventLists} \cup {FailOf("could not query logs", <<>>)}

\* for (const event of eventsFrom) totalChange -= BigInt(event.args.value)
RECURSIVE SubtractEvents(_, _)
SubtractEvents(totalChange, events) ==
  IF events = <<>> THEN totalChange
  ELSE SubtractEvents(BigSub(totalChange, Head(events)), Tail(events))

\* for (const event of eventsTo) totalChange += BigInt(event.args.value)
RECURSIVE AddEvents(_, _)
AddEvents(totalChange, events) ==
  IF events = <<>> THEN totalChange
  ELSE AddEvents(BigAdd(totalChange, Head(events)), Tail(events))

\* a running total kept as a floating-point number: the digits below the
\* two leading limbs are lost
TotalChange_Float(eventsFrom, eventsTo) ==
  LET exact == AddEvents(SubtractEvents(BigZero, eventsFrom), eventsTo)
      kept == IF Len(exact.mag) <= 2 THEN exact.mag
              ELSE SubSeq(exact.mag, 1, 2) \o [i \in 1..(Len(exact.mag) - 2) |-> 0]
  IN BigOf(exact.neg, kept)

\* let totalChange = 0n; outgoing events subtracted, then incoming added
TotalChange(eventsFrom, eventsTo) ==
  AddEvents(SubtractEvents(BigZero, eventsFrom), eventsTo)

\* a filter that keeps increases only
HasChange_PositiveOnly(totalChange) == BigPositive(totalChange)

\* if (totalChange !== 0n)
HasChange(totalChange) == totalChange # BigZero

\* an entry that classifies by the number of events and swaps the counts
ChangeEntry_ByEventCount(token, decimals, fromBlock, toBlock, eventsFrom, eventsTo) ==
  LET totalChange == TotalChange(eventsFrom, eventsTo)
  IN [ token |-> token.address,
       symbol |-> token.symbol,
       change |-> FormatUnitsBig(totalChange, decimals),
       changeType |-> IF Len(eventsTo) >= Len(eventsFrom) THEN "increase" ELSE "decrease",
       fromBlock |-> fromBlock,
       toBlock |-> toBlock,
       events |-> [outgoing |-> Len(eventsTo), incoming |-> Len(eventsFrom)] ]

ChangeEntry(token, decimals, fromBlock, toBlock, eventsFrom, eventsTo) ==
  LET totalChange == TotalChange(eventsFrom, eventsTo)
  IN [ token |-> token.address,
       symbol |-> token.symbol,
       change |-> FormatUnitsBig(totalChange, decimals),
       changeType |-> IF BigPositive(totalChange) THEN "increase" ELSE "decrease",
       fromBlock |-> fromBlock,
       toBlock |-> toBlock,
       events |-> [outgoing |-> Len(eventsFrom), incoming |-> Len(eventsTo)] ]

BalanceReport(address, fromBlock, toBlock, changes) ==
  [address |-> address, fromBlock |-> fromBlock, toBlock |-> toBlock, changes |-> changes]

\* what the node answered to the scan of one token (kept for the properties)
ScanFailed ==
  [ok |-> FALSE, decimals |-> 0, outgoing |-> <<>>, incoming |-> <<>>, total |-> BigZero]
ScanDone(decimals, eventsFrom, eventsTo, totalChange) ==
  [ ok |-> TRUE, decimals |-> decimals, outgoing |-> eventsFrom,
    incoming |-> eventsTo, total |-> totalChange ]

\* the scan of token i is over (pushed, omitted or failed): the next token, or
\* the report when the registry is exhausted
NextToken(i, changes) ==
  IF i < Len(self.tokenAddresses)
  THEN /\ loc' = [loc EXCEPT !.i = i + 1, !.changes = changes]
       /\ pc' = "decimals"
       /\ UNCHANGED <<res, ret>>
  ELSE /\ loc' = [loc EXCEPT !.changes = changes]
       /\ res' = BalanceReport(req.address, loc.fromBlock, loc.toBlock, changes)
       /\ ret' = "returned"
       /\ pc' = "done"

\* an entry that starts scanning without validating the address
BalanceBegin_NoValidation ==
  /\ UNCHANGED <<self, other>>
  /\ op = "idle"
  /\ op' = "getTokenBalanceChanges"
  /\ \E address \in AddressArgs, blocks \in BlockArgs :
       /\ req' = [address |-> address, fromBlock |-> blocks[1], toBlock |-> blocks[2]]
       /\ loc' = [ i |-> 1, changes |-> <<>>,
                   fromBlock |-> ResolveBlock(blocks[1]),
                   toBlock |-> ResolveBlock(blocks[2]),
                   decimals |-> 0, eventsFrom |-> <<>> ]
       /\ pc' = "decimals"
       /\ UNCHANGED <<ret, err>>
  /\ obs' = [scans |-> <<>>]
  /\ UNCHANGED <<tx, res, calls, wallet>>

BalanceBegin ==
  /\ UNCHANGED <<self, other>>
  /\ op = "idle"
  /\ op' = "getTokenBalanceChanges"
  /\ \E address \in AddressArgs, blocks \in BlockArgs :
       /\ req' = [address |-> address, fromBlock |-> blocks[1], toBlock |-> blocks[2]]
       /\ IF ~Present(address) \/ ~IsAddress(address)
          THEN /\ Throw(createTransactionError("INVALID_ADDRESS",
                         "Invalid address provided", [address |-> address]))
               /\ UNCHANGED loc
          ELSE /\ loc' = [ i |-> 1, changes |-> <<>>,
                           fromBlock |-> ResolveBlock(blocks[1]),
                           toBlock |-> ResolveBlock(blocks[2]),
                           decimals |-> 0, eventsFrom |-> <<>> ]
               /\ pc' = "decimals"
               /\ UNCHANGED <<ret, err>>
  /\ obs' = [scans |-> <<>>]
  /\ UNCHANGED <<tx, res, calls, wallet>>

\* new Contract(...) and tokenContract.decimals().catch(() => 18)
BalanceDecimals ==
  /\ UNCHANGED <<self, other>>
  /\ op = "getTokenBalanceChanges" /\ pc = "decimals"
  /\ \/ \E out \in DecimalsOutcomes :
          /\ calls' = Append(calls, "decimals")
          /\ loc' = [loc EXCEPT !.decimals = IF out.ok THEN out.value ELSE DEFAULT_DECIMALS]
          /\ pc' = "eventsFrom"
          /\ UNCHANGED <<res, ret, obs>>
     \/ \* the Contract constructor throws: the token is skipped
        /\ NextToken(loc.i, loc.changes)
        /\ obs' = [scans |-> Append(obs.scans, ScanFailed)]
        /\ UNCHANGED calls
  /\ UNCHANGED <<op, req, tx, err, wallet>>

\* a scan without the try around the body of the loop: a failed query ends
\* the operation
BalanceQueryFrom_Rethrows ==
  /\ UNCHANGED <<self, other>>
  /\ op = "getTokenBalanceChanges" /\ pc = "eventsFrom"
  /\ calls' = Append(calls, "queryFilter(from)")
  /\ \E out \in QueryOutcomes :
       IF out.ok
       THEN /\ loc' = [loc EXCEPT !.eventsFrom = out.value]
            /\ pc' = "eventsTo"
            /\ UNCHANGED <<res, ret, err, obs>>
       ELSE /\ Throw(createTransactionError("TRANSACTION_FAILED", out.message,
                       [address |-> req.address]))
            /\ obs' = [scans |-> Append(obs.scans, ScanFailed)]
            /\ UNCHANGED <<res, loc>>
  /\ UNCHANGED <<op, req, tx, wallet>>

BalanceQueryFrom ==
  /\ UNCHANGED <<self, other>>
  /\ op = "getTokenBalanceChanges" /\ pc = "eventsFrom"
  /\ calls' = Append(calls, "queryFilter(from)")
  /\ \E out \in QueryOutcomes :
       IF out.ok
       THEN /\ loc' = [loc EXCEPT !.eventsFrom = out.value]
            /\ pc' = "eventsTo"
            /\ UNCHANGED <<res, ret, obs>>
       ELSE /\ NextToken(loc.i, loc.changes)
            /\ obs' = [scans |-> Append(obs.scans, ScanFailed)]
  /\ UNCHANGED <<op, req, tx, err, wallet>>

BalanceQueryTo ==
  /\ UNCHANGED <<self, other>>
  /\ op = "getTokenBalanceChanges" /\ pc = "eventsTo"
  /\ calls' = Append(calls, "queryFilter(to)")
  /\ \E out \in QueryOutcomes :
       IF out.ok
       THEN LET totalChange == TotalChange(loc.eventsFrom, out.value)
                entry == ChangeEntry(self.tokenAddresses[loc.i], loc.decimals,
                                     loc.fromBlock, loc.toBlock, loc.eventsFrom, out.value)
            IN /\ NextToken(loc.i,
                            IF HasChange(totalChange) THEN Append(loc.changes, entry)
                            ELSE loc.changes)
               /\ obs' = [scans |-> Append(obs.scans,
                             ScanDone(loc.decimals, loc.eventsFrom, out.value,
                                      totalChange))]
       ELSE /\ NextToken(loc.i, loc.changes)
            /\ obs' = [scans |-> Append(obs.scans, ScanFailed)]
  /\ UNCHANGED <<op, req, tx, err, wallet>>

----------------------------------------------------------------------------
(* The simulator after construction: no operation in progress, no signer   *)
(* connected to the wallet manager                                          *)

\* the fields the constructor sets on the instance
Constructed(config) ==
  [ rpcUrl |-> config.rpcUrl,
    explorerApiKey |-> config.explorerApiKey,
    tokenAddresses |-> config.tokenAddresses,
    provider |-> <<"JsonRpcProvider", config.rpcUrl>> ]

Config ==
  [rpcUrl |-> "https://polygon-rpc", explorerApiKey |-> UNDEF,
   tokenAddresses |-> TokenRegistry]

\* the variables that live for one call of an operation: its arguments, its
\* locals, its position, and what it returned or threw
Locals ==
  [ op |-> op, pc |-> pc, req |-> req, tx |-> tx, res |-> res, ret |-> ret,
    err |-> err, calls |-> calls, obs |-> obs, loc |-> loc ]

NotStarted ==
  [ op |-> "idle", pc |-> "idle", req |-> NoRequest, tx |-> NoRequest,
    res |-> NoResult, ret |-> "none", err |-> NoError, calls |-> <<>>,
    obs |-> NoObs, loc |-> NoLoc ]

Init ==
  /\ op = "idle"
  /\ pc = "idle"
  /\ req = NoRequest
  /\ tx = NoRequest
  /\ res = NoResult
  /\ ret = "none"
  /\ err = NoError
  /\ calls = <<>>
  /\ wallet = [connected |-> FALSE, address |-> UNDEF]
  /\ obs = NoObs
  /\ loc = NoLoc
  /\ self = Constructed(Config)
  /\ other = NotStarted

\* walletManager connects a signer for 'polygon': connectWallet of the server
\* is synchronous and runs whenever no call is running, before a call, while
\* one is suspended at an await, or after it
WalletConnect ==
  /\ UNCHANGED <<self, other>>
  /\ ~wallet.connected
  /\ wallet' = [connected |-> TRUE, address |-> SIGNER]
  /\ UNCHANGED <<op, pc, req, tx, res, ret, err, calls, obs, loc>>

NextSimulate ==
  \/ WalletConnect
  \/ SimulateBegin
  \/ SimPrefillEstimate
  \/ SimFeeData
  \/ SimBlockNumber
  \/ SimCall
  \/ SimReestimate
  \/ SimSymbol
  \/ SimDecimals
  \/ SimDetectReturn
  \/ SimCreationTest
  \/ SimNonce

SpecSimulate == Init /\ [][NextSimulate]_vars

NextEstimate ==
  \/ WalletConnect
  \/ EstimateBegin
  \/ EstimateCall

SpecEstimate == Init /\ [][NextEstimate]_vars

NextAnalyze ==
  \/ AnalyzeBegin
  \/ AnalyzeGetTransaction
  \/ AnalyzeGetReceipt

SpecAnalyze == Init /\ [][NextAnalyze]_vars

NextBalance ==
  \/ BalanceBegin
  \/ BalanceDecimals
  \/ BalanceQueryFrom
  \/ BalanceQueryTo

SpecBalance == Init /\ [][NextBalance]_vars

\* simulateTransaction and estimateGas, the two operations that buffer gas
NextGas ==
  \/ NextSimulate
  \/ NextEstimate

SpecGas == Init /\ [][NextGas]_vars

Next ==
  \/ NextSimulate
  \/ NextEstimate
  \/ NextAnalyze
  \/ NextBalance

Spec == Init /\ [][Next]_vars

----------------------------------------------------------------------------
(* The token queries of the server: getTokenBalance, getMultiTokenBalance  *)

\* the token arguments: a registry symbol and a raw token address
TokenArgs == {"USDC", "0xWETH"}

\* resolveTokenAddress: the address of a known symbol, a raw address as it is
ResolveTokenAddress(token) ==
  IF \E i \in 1..Len(TokenRegistry) : TokenRegistry[i].symbol = token
  THEN (CHOOSE t \in {TokenRegistry[i] : i \in 1..Len(TokenRegistry)} :
          t.symbol = token).address
  ELSE token

QueryAddressArgs == AddressArgs \cup {SENDER}
TokenIdArgs == {UNDEF, NULL, "0", "7"}

\* an error that is not one of the server's own: what ethers or the runtime
\* throws, with the name and code it carries
ForeignError(name, code, message) ==
  [name |-> name, code |-> code, message |-> message, details |-> <<>>]

ForeignErrors ==
  { ForeignError("Error", "CALL_EXCEPTION", "missing revert data"),
    ForeignError("Error", "NETWORK_ERROR", "could not detect network"),
    ForeignError("TypeError", UNDEF, "contract runner does not support calling"),
    ForeignError("Error", "", "request aborted") }

\* the answers of balanceOf
BalanceOfOutcomes ==
  {[ok |-> TRUE, value |-> 0, error |-> ForeignError("", "", "")],
   [ok |-> TRUE, value |-> 2500, error |-> ForeignError("", "", "")]}
    \cup {[ok |-> FALSE, value |-> 0, error |-> e] : e \in ForeignErrors}

\* !!s for a string or undefined
TruthyField(s) == s \notin {UNDEF, NULL, ""}

\* catch (error) { if (error.code && error.name) throw error; throw
\* createTransactionError(CONTRACT_ERROR, ...) }
QueryCatch(error, prefix, details) ==
  IF TruthyField(error.code) /\ TruthyField(error.name)
  THEN error
  ELSE createTransactionError("CONTRACT_ERROR", prefix \o error.message, details)

TokenBalanceBegin ==
  /\ UNCHANGED <<self, other>>
  /\ op = "idle"
  /\ op' = "getTokenBalance"
  /\ \E token \in TokenArgs, address \in QueryAddressArgs :
       /\ req' = [token |-> token, address |-> address]
       /\ IF ~IsAddress(address)
          THEN /\ Throw(QueryCatch(
                    createTransactionError("INVALID_ADDRESS",
                      "Invalid address: " \o address,
                      [token |-> token, address |-> address]),
                    "Failed to get token balance: ",
                    [token |-> token, address |-> address]))
               /\ UNCHANGED loc
          ELSE /\ loc' = [tokenAddress |-> ResolveTokenAddress(token)]
               /\ pc' = "balanceOf"
               /\ UNCHANGED <<ret, err>>
  /\ obs' = [failure |-> ForeignError("", "", "")]
  /\ UNCHANGED <<tx, res, calls, wallet>>

TokenBalanceCall ==
  /\ UNCHANGED <<self, other>>
  /\ op = "getTokenBalance" /\ pc = "balanceOf"
  /\ calls' = Append(calls, "balanceOf")
  /\ \E out \in BalanceOfOutcomes :
       IF out.ok
       THEN /\ res' = out.value
            /\ ret' = "returned"
            /\ pc' = "done"
            /\ UNCHANGED <<err, obs>>
       ELSE /\ Throw(QueryCatch(out.error, "Failed to get token balance: ",
                                [token |-> req.token, address |-> req.address]))
            /\ obs' = [failure |-> out.error]
            /\ UNCHANGED res
  /\ UNCHANGED <<op, req, tx, wallet, loc>>

MultiTokenBalanceBegin ==
  /\ UNCHANGED <<self, other>>
  /\ op = "idle"
  /\ op' = "getMultiTokenBalance"
  /\ \E address \in QueryAddressArgs, account \in QueryAddressArgs,
        tokenId \in TokenIdArgs :
       /\ req' = [address |-> address, account |-> account, tokenId |-> tokenId]
       /\ IF ~IsAddress(address) \/ ~IsAddress(account)
          THEN Throw(QueryCatch(
                 createTransactionError("INVALID_ADDRESS",
                   "Invalid address: " \o
                     (IF ~IsAddress(address) THEN address ELSE account),
                   [address |-> address, account |-> account, tokenId |-> tokenId]),
                 "Failed to get multi-token balance: ",
                 [address |-> address, account |-> account, tokenId |-> tokenId]))
          ELSE IF tokenId \in {UNDEF, NULL}
          THEN Throw(QueryCatch(
                 createTransactionError("INVALID_PARAMETERS",
                   "Token ID is required",
                   [address |-> address, account |-> account]),
                 "Failed to get multi-token balance: ",
                 [address |-> address, account |-> account, tokenId |-> tokenId]))
          ELSE /\ pc' = "balanceOf"
               /\ UNCHANGED <<ret, err>>
  /\ obs' = [failure |-> ForeignError("", "", "")]
  /\ UNCHANGED <<tx, res, calls, wallet, loc>>

MultiTokenBalanceCall ==
  /\ UNCHANGED <<self, other>>
  /\ op = "getMultiTokenBalance" /\ pc = "balanceOf"
  /\ calls' = Append(calls, "balanceOf")
  /\ \E out \in BalanceOfOutcomes :
       IF out.ok
       THEN /\ res' = out.value
            /\ ret' = "returned"
            /\ pc' = "done"
            /\ UNCHANGED <<err, obs>>
       ELSE /\ Throw(QueryCatch(out.error, "Failed to get multi-token balance: ",
                                [address |-> req.address, account |-> req.account,
                                 tokenId |-> req.tokenId]))
            /\ obs' = [failure |-> out.error]
            /\ UNCHANGED res
  /\ UNCHANGED <<op, req, tx, wallet, loc>>

----------------------------------------------------------------------------
(* connectWallet of the server *)

PrivateKeys == {UNDEF, "", "0xkey"}

WalletError(code, message, details) ==
  [name |-> "WalletError", code |-> code, message |-> message, details |-> details]

createWalletError(code, message, details) == WalletError(code, message, details)

\* the methods the classes define
SimulatorMethods ==
  { "checkWalletConnected", "resolveTokenAddress", "simulateTransaction",
    "analyzeTransaction", "extractConstructorArgs", "detectTokenTransfers",
    "detectERC20Transfer", "getTokenBalanceChanges", "estimateGas" }
TemplatesMethods ==
  { "checkWalletConnected", "listTemplates", "getTemplate", "prepareContract",
    "compileContract", "deployFromTemplate", "deployCompiledContract",
    "deployContract", "verifyContract", "encodeConstructorArgs" }

\* calling a property that is undefined
NotAFunction(target) ==
  ForeignError("TypeError", UNDEF, "this." \o target \o ".connectWallet is not a function")

\* the key check and walletManager.connectToMultipleNetworks, which connects
\* the signer or rejects the key
ServerConnectBegin ==
  /\ UNCHANGED <<self, other>>
  /\ op = "idle"
  /\ op' = "connectWallet"
  /\ \E privateKey \in PrivateKeys :
       /\ req' = [privateKey |-> privateKey]
       /\ IF ~TruthyField(privateKey)
          THEN /\ Throw(createWalletError("WALLET_NOT_CONNECTED",
                         "Private key is required to connect wallet",
                         [context |-> "PolygonMCPServer.connectWallet"]))
               /\ UNCHANGED <<wallet, calls>>
          ELSE /\ calls' = Append(calls, "walletManager.connectToMultipleNetworks")
               /\ \E accepted \in BOOLEAN :
                    IF accepted
                    THEN /\ wallet' = [connected |-> TRUE, address |-> SIGNER]
                         /\ pc' = "propagate"
                         /\ UNCHANGED <<ret, err>>
                    ELSE /\ Throw(ForeignError("TypeError", "INVALID_ARGUMENT",
                                                "invalid private key"))
                         /\ UNCHANGED wallet
  /\ obs' = [failure |-> ForeignError("", "", "")]
  /\ UNCHANGED <<tx, res, loc>>

\* this.simulator.connectWallet, this.contractTemplates.connectWallet,
\* this.bridge.connectWallet, in this order
ServerConnectPropagate ==
  /\ UNCHANGED <<self, other>>
  /\ op = "connectWallet" /\ pc = "propagate"
  /\ IF "connectWallet" \notin SimulatorMethods
     THEN Throw(NotAFunction("simulator")) /\ UNCHANGED <<calls, res>>
     ELSE IF "connectWallet" \notin TemplatesMethods
     THEN /\ Throw(NotAFunction("contractTemplates"))
          /\ calls' = Append(calls, "simulator.connectWallet")
          /\ UNCHANGED res
     ELSE /\ calls' = calls \o <<"simulator.connectWallet",
                                  "contractTemplates.connectWallet",
                                  "bridge.connectWallet">>
          /\ res' = UNDEF
          /\ ret' = "returned"
          /\ pc' = "done"
          /\ UNCHANGED err
  /\ UNCHANGED <<op, req, tx, wallet, obs, loc>>

NextServer ==
  \/ TokenBalanceBegin
  \/ TokenBalanceCall
  \/ MultiTokenBalanceBegin
  \/ MultiTokenBalanceCall
  \/ ServerConnectBegin
  \/ ServerConnectPropagate

SpecServer == Init /\ [][NextServer]_vars

----------------------------------------------------------------------------
(* Two operations in flight on one instance.  An operation runs until it   *)
(* awaits a response of the node; while it is suspended the event loop may *)
(* run the other one.  `other` holds the call that is not running.         *)

\* the event loop resumes the other call; the running one stays suspended
\* at its await, or has settled
Switch ==
  /\ other # Locals
  /\ other' = Locals
  /\ op' = other.op
  /\ pc' = other.pc
  /\ req' = other.req
  /\ tx' = other.tx
  /\ res' = other.res
  /\ ret' = other.ret
  /\ err' = other.err
  /\ calls' = other.calls
  /\ obs' = other.obs
  /\ loc' = other.loc
  /\ UNCHANGED <<wallet, self>>

\* the arguments of the concurrent calls: a transfer that relies on the
\* connected signer, and a creation that leaves gas limit and fees to the node
ConcurrentRequests ==
  { [ from |-> UNDEF, to |-> TOKEN, value |-> Undefined,
      data |-> CallData(ERC20_TRANSFER_SIGNATURE, <<7, 1500>>),
      gasLimit |-> <<50000>>, gasPrice |-> <<30>>,
      maxFeePerGas |-> Undefined, maxPriorityFeePerGas |-> Undefined ],
    [ from |-> SENDER, to |-> UNDEF, value |-> Undefined,
      data |-> CallData("0x23b872dd", <<7, 9, 1500>>),
      gasLimit |-> Undefined, gasPrice |-> Undefined,
      maxFeePerGas |-> Undefined, maxPriorityFeePerGas |-> Undefined ] }

ConcurrentBalanceRequest ==
  [address |-> HOLDER, fromBlock |-> BlockNumber(5), toBlock |-> NoBlock]

\* the event lists of the concurrent scans hold one small amount at most
ShortScan(scan) == scan.incoming \in {<<>>, <<BigInt(1)>>}

NextConcurrent ==
  \/ Switch
  \/ WalletConnect
  \/ SimulateBegin /\ obs'.given \in ConcurrentRequests
  \/ SimPrefillEstimate /\ obs'.prefillE # 64999
  \/ SimFeeData /\ tx'.gasPrice \in {Undefined, <<31>>}
  \/ SimBlockNumber
  \/ SimCall /\ res'.errorMessage \in {NULL, "missing revert data"}
  \/ SimReestimate /\ obs'.reestE # 64999
  \/ SimSymbol
  \/ SimDecimals
  \/ SimDetectReturn
  \/ SimCreationTest
  \/ SimNonce /\ obs'.network # "undefined" /\ (res'.contractInteractions # <<>> =>
                   res'.contractInteractions[1].estimatedAddress = EstimatedAddress(137, SENDER, 5))
  \/ EstimateBegin /\ obs'.given \in ConcurrentRequests
  \/ EstimateCall
  \/ AnalyzeBegin /\ req'.txHash = "0xhash1"
  \/ AnalyzeGetTransaction
  \/ AnalyzeGetReceipt /\ (ret' = "returned" => loc'.receipt.gasUsed # 52000)
  \/ BalanceBegin /\ req' = ConcurrentBalanceRequest
  \/ BalanceDecimals /\ loc'.decimals # DEFAULT_DECIMALS
  \/ BalanceQueryFrom /\ loc'.eventsFrom \in {<<>>, <<BigInt(1)>>}
  \/ BalanceQueryTo /\ \A i \in 1..Len(obs'.scans) : ShortScan(obs'.scans[i])

SpecConcurrent == Init /\ [][NextConcurrent]_vars

----------------------------------------------------------------------------
(* Properties of simulateTransaction *)

SimulateDone == op = "simulateTransaction" /\ pc = "done"

\* C1: simulateTransaction never throws.  Whatever the node answers to
\* estimateGas, getFeeData, getBlockNumber, call, getTransactionCount and the
\* token metadata calls, the operation never ends by throwing, it ends only
\* by returning a result object, and a result produced by the catch-all
\* handler has success = false and a populated errorMessage.
C1_SimulateNeverThrows ==
  op = "simulateTransaction" =>
    /\ ret # "thrown"
    /\ err = NoError
    /\ pc # "done" => ret = "none"
    /\ pc = "done" => ret = "returned" /\ "success" \in DOMAIN res
    /\ obs.caught =>
         /\ pc = "done"
         /\ res.success = FALSE
         /\ res.errorMessage \notin {NULL, UNDEF, ""}

\* an exception was caught after the speculative call had succeeded
C1_Witness ==
  /\ SimulateDone
  /\ obs.caught
  /\ obs.call = "ok"
  /\ ret = "returned"

\* C2: whenever provider.call fails, the result has success = false and a
\* non-null errorMessage, whatever the gas re-estimate, the token detection,
\* the creation step and the gas cost do afterwards.
C2_FailedCallIsReported ==
  (op = "simulateTransaction" /\ obs.call = "fail") =>
    /\ res.success = FALSE
    /\ res.errorMessage \notin {NULL, UNDEF}

\* a failed call without revert text, followed by a successful re-estimate
\* and a detected token transfer
C2_Witness ==
  /\ SimulateDone
  /\ obs.call = "fail"
  /\ obs.reest = "ok"
  /\ ~obs.caught
  /\ Len(res.tokenTransfers) = 1
  /\ res.errorMessage = "missing revert data"

\* C3 (as claimed): whenever the speculative call succeeds, the result has
\* success = true and a gasUsed no greater than the final gas limit of the
\* simulated transaction.
C3_SuccessWithinGasLimit ==
  (SimulateDone /\ obs.call = "ok") =>
    /\ res.success = TRUE
    /\ tx.gasLimit # Undefined
    /\ res.gasUsed <= tx.gasLimit[1]

\* L is the floor of 120% of E
IsFloorOfBuffer(L, E) == 100 * L <= 120 * E /\ 120 * E < 100 * (L + 1)

\* the gas limit of the working copy is final once the pre-fill step is over
GasLimitSettled == op = "simulateTransaction" /\ pc # "prefill"

\* C4 (as claimed): gas buffering is exact floor arithmetic and applies only
\* to estimated limits.  When the caller gave no gasLimit and the estimate is
\* E, the simulated gasLimit is floor(E * 120 / 100); estimateGas returns
\* gasEstimate = E and gasLimit = recommendedGasLimit = floor(E * 120 / 100);
\* a gasLimit supplied by the caller is used unchanged, with no estimate call
\* for the pre-fill.
C4_GasBufferExact ==
  /\ (GasLimitSettled /\ req.gasLimit = Undefined /\ obs.prefill = "ok") =>
       /\ tx.gasLimit # Undefined
       /\ IsFloorOfBuffer(tx.gasLimit[1], obs.prefillE)
  /\ (GasLimitSettled /\ req.gasLimit # Undefined) =>
       /\ tx.gasLimit = req.gasLimit
       /\ obs.prefill = "unasked"
  /\ (op = "estimateGas" /\ ret = "returned") =>
       /\ res.gasEstimate = obs.prefillE
       /\ IsFloorOfBuffer(res.gasLimit, obs.prefillE)
       /\ res.recommendedGasLimit = res.gasLimit

----------------------------------------------------------------------------
(* Properties of estimateGas *)

EstimateDone == op = "estimateGas" /\ pc = "done"

\* C5: estimateGas treats an estimation failure as a hard error.  When the
\* network estimate fails the operation throws a TransactionError with code
\* TRANSACTION_FAILED and the message "Gas estimation failed: <cause>", and
\* returns no result object and no default; it returns a result only when
\* the network estimate succeeded.
C5_EstimateFailureIsHardError ==
  EstimateDone =>
    /\ obs.prefill = "fail" =>
         /\ ret = "thrown"
         /\ res = NoResult
         /\ err.name = "TransactionError"
         /\ err.code = "TRANSACTION_FAILED"
         /\ err.message = "Gas estimation failed: cannot estimate gas"
    /\ ret = "returned" => obs.prefill = "ok" /\ err = NoError

\* the network estimate failed and estimateGas has thrown
C5_Witness ==
  /\ EstimateDone
  /\ obs.prefill = "fail"
  /\ ret = "thrown"
  /\ calls = <<"estimateGas">>

----------------------------------------------------------------------------
(* Properties of analyzeTransaction *)

AnalyzeDone == op = "analyzeTransaction" /\ pc = "done"

\* C6: analyzeTransaction on a known transaction never throws because the
\* receipt is missing.  When the node answers null for the receipt the
\* operation returns; status is 'Pending' exactly when the receipt is absent,
\* and then gasUsed and blockNumber are 'Pending', logs is 0 and there is no
\* gasCost field; with a receipt, status is 'Success' when the receipt's
\* status flag is set and 'Failed' otherwise, and gasCost is present.
C6_PendingIffNoReceipt ==
  AnalyzeDone =>
    /\ obs.receipt = "null" => ret = "returned"
    /\ ret = "returned" =>
         /\ obs.receipt \in {"null", "found"}
         /\ res.status = "Pending" <=> obs.receipt = "null"
         /\ obs.receipt = "null" =>
              /\ res.gasUsed = "Pending"
              /\ res.blockNumber = "Pending"
              /\ res.logs = 0
              /\ "gasCost" \notin DOMAIN res
         /\ obs.receipt = "found" =>
              /\ res.status = (IF loc.receipt.status = 1 THEN "Success" ELSE "Failed")
              /\ "gasCost" \in DOMAIN res

\* a known transaction whose receipt is not mined yet
C6_Witness ==
  /\ AnalyzeDone
  /\ obs.transaction = "found"
  /\ obs.receipt = "null"
  /\ ret = "returned"
  /\ res.status = "Pending"

\* C7: when the hash does not resolve to a known transaction (the node
\* answers null, or the lookup fails), analyzeTransaction throws a
\* TransactionError that carries the txHash in its details, the receipt is
\* never fetched and no analysis object is returned.
C7_UnknownHashThrows ==
  (op = "analyzeTransaction" /\ obs.transaction \in {"null", "fail"}) =>
    /\ pc = "done"
    /\ ret = "thrown"
    /\ res = NoResult
    /\ err.name = "TransactionError"
    /\ err.code = "TRANSACTION_FAILED"
    /\ err.details = [txHash |-> req.txHash]
    /\ calls = <<"getTransaction">>

\* the node answered null for the hash
C7_Witness ==
  /\ AnalyzeDone
  /\ obs.transaction = "null"
  /\ ret = "thrown"
  /\ err.message = "Analysis failed: Transaction not found: 0xhash1"

----------------------------------------------------------------------------
(* Properties of the token transfer detection *)

\* detectTokenTransfers has run and the simulation was not abandoned
DetectionOver ==
  /\ op = "simulateTransaction"
  /\ pc \in {"afterDetect", "nonce", "done"}
  /\ ~obs.caught

\* the request has a `to` and its data begins with the transfer selector
MatchesTransferSelector ==
  /\ Present(tx.to)
  /\ tx.data.defined
  /\ tx.data.selector = "0xa9059cbb"

\* the symbol and the amount expected for the outcomes of the two lookups:
\* the transferred amount is 1500 units in every request of the model
MetadataDefaulted(entry) ==
  /\ entry.symbol = (IF obs.symbol = "ok" THEN "TEST" ELSE "Unknown")
  /\ entry.amount = (IF obs.decimals = "ok" THEN "0.0015" ELSE "0.0000000000000015")

\* C8: token metadata lookups are defaulted independently and never abort
\* the detection.  For a request matching the ERC-20 transfer selector, once
\* symbol() has answered or failed, decimals() is asked all the same, and in
\* each of the four combinations of success and failure exactly one entry is
\* appended: its symbol is the token's or 'Unknown', its amount is scaled by
\* the token's decimals or by 18.
C8_MetadataDefaults ==
  (DetectionOver /\ MatchesTransferSelector /\ obs.symbol # "unasked") =>
    /\ obs.decimals # "unasked"
    /\ Len(res.tokenTransfers) = 1
    /\ MetadataDefaulted(res.tokenTransfers[1])

\* symbol() failed, decimals() succeeded, and one entry was appended
C8_Witness ==
  /\ DetectionOver
  /\ MatchesTransferSelector
  /\ obs.symbol = "fail"
  /\ obs.decimals = "ok"
  /\ Len(res.tokenTransfers) = 1
  /\ res.tokenTransfers[1].symbol = "Unknown"
  /\ res.tokenTransfers[1].amount = "0.0015"

\* the fields of the entry that do not depend on the metadata
TransferFieldsDecoded(entry) ==
  /\ entry.token = tx.to
  /\ entry.from = tx.from
  /\ entry.to = "0x7"
  /\ entry.rawAmount = "1500"
  /\ entry.amount \in {"0.0015", "0.0000000000000015"}
  /\ entry.amount = (IF obs.decimals = "ok" THEN "0.0015" ELSE "0.0000000000000015")
  /\ entry.type = "ERC20"

\* C9 (as claimed): an entry is appended only when the transaction has a
\* `to` and its data begins with the transfer selector, and then exactly one
\* entry is appended, with token, from, to, rawAmount, amount and type as
\* decoded; for every other call shape tokenTransfers is left unchanged.
C9_DetectsTransferOnly_Claimed ==
  DetectionOver =>
    IF MatchesTransferSelector
    THEN /\ Len(res.tokenTransfers) = 1
         /\ TransferFieldsDecoded(res.tokenTransfers[1])
    ELSE res.tokenTransfers = <<>>

\* C9 (amended): an entry is appended only when the transaction has a `to`,
\* its data begins with the transfer selector and the arguments after the
\* selector decode as (address, uint256); then exactly one entry is appended
\* with the decoded fields.  For every other call shape, and for a transfer
\* call whose arguments cannot be decoded, tokenTransfers is left unchanged.
C9_DetectsTransferOnly ==
  DetectionOver =>
    IF MatchesTransferSelector /\ Len(tx.data.args) >= 2
    THEN /\ Len(res.tokenTransfers) = 1
         /\ TransferFieldsDecoded(res.tokenTransfers[1])
    ELSE res.tokenTransfers = <<>>

\* a transfer call sent without a `from`, the signer's address filled in
C9_Witness ==
  /\ DetectionOver
  /\ MatchesTransferSelector
  /\ req.from = UNDEF
  /\ Len(res.tokenTransfers) = 1
  /\ res.tokenTransfers[1].from = SIGNER
  /\ res.tokenTransfers[1].token = TOKEN
  /\ res.tokenTransfers[1].rawAmount = "1500"

----------------------------------------------------------------------------
(* Properties of getTokenBalanceChanges *)

BalanceDone == op = "getTokenBalanceChanges" /\ pc = "done" /\ ret = "returned"

\* the sum of the first n amounts of a list of events, all of them positive
RECURSIVE SumOf(_, _)
SumOf(values, n) ==
  IF n = 0 THEN <<0>> ELSE MagAdd(values[n].mag, SumOf(values, n - 1), 0)

IncomingOf(scan) == SumOf(scan.incoming, Len(scan.incoming))
OutgoingOf(scan) == SumOf(scan.outgoing, Len(scan.outgoing))

\* the registry tokens whose scan succeeded with a nonzero net sum
TokensWithNetChange ==
  { i \in 1..Len(TokenRegistry) :
      obs.scans[i].ok /\ IncomingOf(obs.scans[i]) # OutgoingOf(obs.scans[i]) }

EntriesFor(i) ==
  {k \in 1..Len(res.changes) : res.changes[k].token = TokenRegistry[i].address}

\* C10: the changes list holds exactly one entry for each registry token
\* whose scan succeeded and whose net signed sum over the range is nonzero,
\* and no entry for a token whose net sum is zero, a token with equal nonzero
\* incoming and outgoing totals included.
C10_NonzeroNetOnly ==
  BalanceDone =>
    /\ Len(obs.scans) = Len(TokenRegistry)
    /\ Len(res.changes) = Cardinality(TokensWithNetChange)
    /\ \A i \in 1..Len(TokenRegistry) :
         Cardinality(EntriesFor(i)) = (IF i \in TokensWithNetChange THEN 1 ELSE 0)

\* one token moved 2 out and 2 in and is omitted, the other is reported as a
\* decrease
C10_Witness ==
  /\ BalanceDone
  /\ obs.scans[1].ok
  /\ obs.scans[1].outgoing = <<BigInt(1), BigInt(1)>>
  /\ obs.scans[1].incoming = <<BigInt(1), BigInt(1)>>
  /\ obs.scans[2].ok
  /\ MagLess(IncomingOf(obs.scans[2]), OutgoingOf(obs.scans[2]))
  /\ Len(res.changes) = 1
  /\ res.changes[1].symbol = "WETH"

\* the total of a scan is a BigInt in normal form and, added to the smaller
\* of the two sums, gives the larger one
IsExactNet(scan) ==
  /\ StripLeadingZeros(scan.total.mag) = scan.total.mag
  /\ scan.total.neg => scan.total.mag # <<0>>
  /\ IF scan.total.neg
     THEN MagAdd(scan.total.mag, IncomingOf(scan), 0) = OutgoingOf(scan)
     ELSE MagAdd(scan.total.mag, OutgoingOf(scan), 0) = IncomingOf(scan)

\* ten incoming events of 1000000000000000001 and three outgoing of 1
IsDocumentedExample(scan) ==
  /\ scan.ok
  /\ Len(scan.incoming) = 10
  /\ \A k \in 1..10 : scan.incoming[k] = LargeValue
  /\ scan.outgoing = <<BigInt(1), BigInt(1), BigInt(1)>>

\* the large amount of the model is the one of the documented example
LargeValueIsDocumented == BigToString(LargeValue) = "1000000000000000001"

\* C11: for each scanned token the net change is exactly the sum of the
\* incoming event values minus the sum of the outgoing ones, in integer
\* arithmetic without rounding or overflow, and the reported change is that
\* integer scaled by the token's decimals (or by 18); ten incoming events of
\* 1000000000000000001 and three outgoing of 1 net to 10000000000000000007.
C11_ExactNetChange ==
  BalanceDone =>
    \A i \in 1..Len(TokenRegistry) :
      obs.scans[i].ok =>
        /\ IsExactNet(obs.scans[i])
        /\ IsDocumentedExample(obs.scans[i]) =>
             /\ LargeValueIsDocumented
             /\ BigToString(obs.scans[i].total) = "10000000000000000007"
        /\ \A k \in EntriesFor(i) :
             res.changes[k].change \in
               {FormatUnitsBig(obs.scans[i].total, obs.scans[i].decimals)}

\* the documented example on the first token, whose decimals() lookup failed,
\* and a net decrease with a borrow through every digit on the second
C11_Witness ==
  /\ BalanceDone
  /\ IsDocumentedExample(obs.scans[1])
  /\ obs.scans[2].ok
  /\ obs.scans[2].outgoing = <<LargeValue>>
  /\ obs.scans[2].incoming = <<BigInt(1), BigInt(1)>>
  /\ Len(res.changes) = 2
  /\ res.changes[1].change = "10.000000000000000007"
  /\ res.changes[2].change \in {"-0.999999999999999999", "-999999999999.999999"}

\* the entries a report holds for the first n registry tokens when each token
\* is looked at on its own: the entry of its own scan when the scan succeeded
\* with a nonzero net sum, nothing otherwise
RECURSIVE ExpectedChanges(_)
ExpectedChanges(n) ==
  IF n = 0 THEN <<>>
  ELSE LET scan == obs.scans[n]
       IN ExpectedChanges(n - 1) \o
            (IF scan.ok /\ IncomingOf(scan) # OutgoingOf(scan)
             THEN << ChangeEntry(TokenRegistry[n], scan.decimals, loc.fromBlock,
                                 loc.toBlock, scan.outgoing, scan.incoming) >>
             ELSE <<>>)

\* C12: per-token failure isolation.  For a valid address the operation
\* never throws, whichever token scans fail (contract construction or either
\* event query); it returns a report from which the failing tokens are
\* omitted and in which every other token is reported exactly as its own
\* scan determines, in registry order.
C12_FailureIsolation ==
  (op = "getTokenBalanceChanges" /\ IsAddress(req.address)) =>
    /\ ret # "thrown"
    /\ err = NoError
    /\ loc.changes = ExpectedChanges(Len(obs.scans))
    /\ pc = "done" =>
         /\ ret = "returned"
         /\ Len(obs.scans) = Len(TokenRegistry)
         /\ res.address = req.address
         /\ res.changes = ExpectedChanges(Len(TokenRegistry))

\* the outgoing query of the first token failed after its decimals were
\* read, and the second token is reported all the same
C12_Witness ==
  /\ BalanceDone
  /\ ~obs.scans[1].ok
  /\ Len(calls) > 3
  /\ calls[2] = "queryFilter(from)"
  /\ calls[3] = "decimals"
  /\ obs.scans[2].ok
  /\ Len(res.changes) = 1
  /\ res.changes[1].symbol = "WETH"
  /\ res.changes[1].events = [outgoing |-> 1, incoming |-> 2]
  /\ res.changes[1].change \in {"0.000000000000000001", "0.000001"}

\* C13: getTokenBalanceChanges with a missing or malformed address throws a
\* TransactionError with code INVALID_ADDRESS that carries the address, before
\* any network call (decimals lookup or event query) is issued for any token,
\* and returns no report.
C13_InvalidAddressFirst ==
  (op = "getTokenBalanceChanges" /\ req.address \in {UNDEF, "not-an-address"}) =>
    /\ pc = "done"
    /\ ret = "thrown"
    /\ err.name = "TransactionError"
    /\ err.code = "INVALID_ADDRESS"
    /\ err.message = "Invalid address provided"
    /\ err.details = [address |-> req.address]
    /\ calls = <<>>
    /\ obs.scans = <<>>
    /\ res = NoResult

\* a malformed address given together with block bounds
C13_Witness ==
  /\ op = "getTokenBalanceChanges"
  /\ req.address = "not-an-address"
  /\ req.fromBlock = BlockNumber(5)
  /\ ret = "thrown"
  /\ err.code = "INVALID_ADDRESS"

----------------------------------------------------------------------------
(* Properties of the request object *)

\* C14: simulateTransaction and estimateGas never mutate the caller's
\* request object.  At every step of either operation, and after it has
\* returned or thrown, every field of the caller's object (from, to, value,
\* data, gasLimit, gasPrice, maxFeePerGas, maxPriorityFeePerGas) has the
\* value it was given with, although from, gasLimit and the fee fields are
\* filled in on the working copy.
C14_RequestNotMutated ==
  op \in {"simulateTransaction", "estimateGas"} =>
    /\ obs.given \in Requests
    /\ req = obs.given

\* a request without from, gasLimit and fees: all of them were filled in on
\* the working copy, and the caller's object still lacks them
C14_Witness ==
  /\ SimulateDone
  /\ ~obs.caught
  /\ req.from = UNDEF /\ tx.from = SIGNER
  /\ req.gasLimit = Undefined /\ tx.gasLimit # Undefined
  /\ req.maxFeePerGas = Undefined /\ tx.maxFeePerGas # Undefined
  /\ req.maxPriorityFeePerGas = Undefined /\ tx.maxPriorityFeePerGas # Undefined
  /\ req.value = <<1500>>

----------------------------------------------------------------------------
(* Properties of the simulation result *)

\* the fields of the Simulation Result data model
SimulationResultFields ==
  { "success", "gasUsed", "gasCost", "logs", "tokenTransfers",
    "contractInteractions", "errorMessage", "stateChanges" }

\* C15 (as claimed): every result object returned by simulateTransaction, on
\* the normal path and on the catch-all failure path alike, carries all the
\* fields of the Simulation Result data model, with stateChanges an empty
\* sequence.
C15_ResultStructure ==
  SimulateDone =>
    /\ DOMAIN res = SimulationResultFields
    /\ res.stateChanges = <<>>

----------------------------------------------------------------------------
(* Properties of the errors thrown by the mandatory steps *)

\* the parameters of the operation that the details of its error repeat
OffendingParameters == {"txHash", "transaction"}

\* an RPC call of a mandatory step failed and the operation has thrown
MandatoryStepFailed ==
  \/ op = "analyzeTransaction" /\ ret = "thrown"
       /\ (obs.transaction = "fail" \/ obs.receipt = "fail")
  \/ op = "estimateGas" /\ ret = "thrown" /\ obs.prefill = "fail"

\* C16 (as claimed): when an RPC failure occurs in a mandatory step (the
\* transaction or the receipt lookup of analyzeTransaction, the network
\* estimate of estimateGas), the details payload of the typed error that
\* propagates carries the original cause, not only the offending parameters.
C16_CauseInDetails ==
  MandatoryStepFailed =>
    DOMAIN err.details \ OffendingParameters # {}

----------------------------------------------------------------------------
(* Properties of the monetary fields *)

\* the decimals of a registry token, as its decimals() call answers them
TokenDecimals == CHOOSE d \in {out.value : out \in {o \in DecimalsOutcomes : o.ok}} : TRUE

\* a consumer who knows the decimals of the token scales the change string
\* of an entry back to the integer the scan summed up
NetChangeRetrievable(i) ==
  \A k \in EntriesFor(i) :
    res.changes[k].change = FormatUnitsBig(obs.scans[i].total, TokenDecimals)

\* C17 (as claimed): every result that exposes a decimal-string monetary
\* field also exposes the exact integer it was scaled from: gasCost carries
\* wei, each token transfer carries rawAmount, the value and the gasPrice of
\* an analysis carry wei, and each balance-change entry lets the consumer
\* retrieve the exact integer net change.
C17_IntegerFormRetrievable ==
  /\ (SimulateDone /\ ~obs.caught) =>
       /\ "wei" \in DOMAIN res.gasCost
       /\ \A k \in 1..Len(res.tokenTransfers) :
            /\ res.tokenTransfers[k].rawAmount = "1500"
            /\ res.tokenTransfers[k].amount \in {"0.0015", "0.0000000000000015"}
  /\ (AnalyzeDone /\ ret = "returned") =>
       /\ "wei" \in DOMAIN res.value
       /\ "wei" \in DOMAIN res.gasPrice
       /\ obs.receipt = "found" => "wei" \in DOMAIN res.gasCost
  /\ BalanceDone =>
       \A i \in 1..Len(TokenRegistry) : NetChangeRetrievable(i)

----------------------------------------------------------------------------
(* Properties of the gas steps of simulateTransaction *)

\* the caller gave no gasLimit and the estimate of the pre-fill step failed
PrefillFailed ==
  /\ op = "simulateTransaction"
  /\ req.gasLimit = Undefined
  /\ obs.prefill = "fail"

\* the steps that follow the speculative call
AfterCall ==
  /\ pc \in {"reest", "symbol", "decimals", "detected", "afterDetect", "nonce", "done"}
  /\ ~obs.caught

\* C18: when the caller gives no gasLimit and the pre-fill estimate fails,
\* the simulated gasLimit is exactly 300000, without buffer, and the
\* simulation goes on: the failure does not end it, the speculative call is
\* made with that limit, and the success flag is the outcome of the
\* speculative call.  The simulation ends before the call only when fetching
\* the fee data or the block number throws.
C18_PrefillFailureNotFatal ==
  PrefillFailed =>
    /\ tx.gasLimit = <<300000>>
    /\ (obs.caught /\ obs.call = "unasked") =>
         calls[Len(calls)] \in {"getFeeData", "getBlockNumber"}
    /\ obs.call # "unasked" =>
         /\ obs.callTx.gasLimit = <<300000>>
         /\ obs.callTx = tx
    /\ AfterCall =>
         /\ obs.call # "unasked"
         /\ res.success = (obs.call = "ok")

\* both estimates failed and the call succeeded: the simulation reports
\* success, with the default limit as gasUsed
C18_Witness ==
  /\ SimulateDone
  /\ PrefillFailed
  /\ ~obs.caught
  /\ obs.call = "ok"
  /\ obs.reest = "fail"
  /\ res.success = TRUE
  /\ res.gasUsed = 300000
  /\ tx.gasLimit = <<300000>>

\* the steps that follow the gas re-estimate
AfterReestimate ==
  /\ pc \in {"symbol", "decimals", "detected", "afterDetect", "nonce", "done"}
  /\ ~obs.caught

\* C19: when the gas re-estimate after the speculative call fails, gasUsed
\* is the gas limit of the simulated transaction, and errorMessage is the
\* estimation failure only if the speculative call recorded no message: a
\* message recorded by the speculative call is never overwritten.  When the
\* re-estimate succeeds, gasUsed is that estimate and errorMessage is left as
\* the speculative call set it.
C19_ReestimateFallback ==
  (op = "simulateTransaction" /\ AfterReestimate) =>
    /\ obs.reest \in {"ok", "fail"}
    /\ obs.reest = "fail" =>
         /\ res.gasUsed = tx.gasLimit[1]
         /\ res.errorMessage =
              (IF obs.call = "ok"
               THEN "Gas estimation failed: cannot estimate gas"
               ELSE obs.callMessage)
    /\ obs.reest = "ok" =>
         /\ res.gasUsed = obs.reestE
         /\ res.errorMessage = obs.callMessage
    /\ obs.call = "fail" => obs.callMessage \notin {NULL, ""}
    /\ obs.call = "ok" => obs.callMessage = NULL

\* the call reverted with a reason and the re-estimate failed: the revert
\* message is kept and gasUsed is the caller's gas limit
C19_Witness ==
  /\ SimulateDone
  /\ ~obs.caught
  /\ obs.call = "fail"
  /\ obs.reest = "fail"
  /\ req.gasLimit = <<50000>>
  /\ res.gasUsed = 50000
  /\ res.errorMessage = "Transaction would revert: execution reverted: paused"

\* the gas price the claim calls effective, in gwei: the gasPrice of the
\* simulated transaction when it has one, zero included, otherwise its
\* maxFeePerGas, otherwise 50
ClaimedGasPrice ==
  IF tx.gasPrice # Undefined THEN tx.gasPrice[1]
  ELSE IF tx.maxFeePerGas # Undefined THEN tx.maxFeePerGas[1]
  ELSE 50

\* the decimal string of an amount of gwei, in wei
WeiString(amountGwei) ==
  IF amountGwei = 0 THEN "0" ELSE ToString(amountGwei) \o "000000000"

\* C20 (as claimed): on every normal-path result of simulateTransaction,
\* gasCost.wei is gasUsed multiplied by the effective gas price: the gasPrice
\* of the simulated transaction when one is given (a gasPrice of zero
\* included), otherwise its maxFeePerGas, otherwise 50 gwei; gasPrice wins
\* when both are present.
C20_GasCostFromEffectivePrice ==
  (SimulateDone /\ ~obs.caught) =>
    res.gasCost.wei = WeiString(res.gasUsed * ClaimedGasPrice)

----------------------------------------------------------------------------
(* Properties of the fee fields *)

FeeFields == {"gasPrice", "maxFeePerGas", "maxPriorityFeePerGas"}

FeeDataQueried == \E i \in 1..Len(calls) : calls[i] = "getFeeData"

\* C21 (as claimed): simulateTransaction fills only missing fee fields.
\* Fee data is queried only when the request carries neither a gasPrice nor
\* any EIP-1559 fee field; every fee field supplied by the caller keeps the
\* caller's value in the transaction passed to the speculative call; and
\* when fee data is queried and the network reports maxFeePerGas, the
\* EIP-1559 fields are populated and gasPrice is not.
C21_FillsOnlyMissingFees ==
  op = "simulateTransaction" =>
    /\ FeeDataQueried => \A f \in FeeFields : req[f] = Undefined
    /\ obs.call # "unasked" =>
         \A f \in FeeFields : req[f] # Undefined => obs.callTx[f] = req[f]
    /\ (FeeDataQueried /\ tx.maxFeePerGas # req.maxFeePerGas) =>
         /\ tx.maxPriorityFeePerGas # Undefined
         /\ tx.gasPrice = req.gasPrice

----------------------------------------------------------------------------
(* Properties of the contract creation step *)

\* the request is a contract creation: no `to`, and data
IsCreationRequest == req.to = UNDEF /\ req.data.defined

\* the creation step was reached, the nonce was fetched and the network of
\* the provider is known
CreationStepAnswered ==
  /\ SimulateDone
  /\ obs.nonce = "ok"
  /\ obs.network = "known"

\* C22 (as claimed): for every request that has no `to` and has data,
\* whether or not it has a `from` and whether or not a signer is connected,
\* the result contains exactly one contractInteractions entry, of type
\* 'creation', with bytecode, estimatedAddress and constructorArgs; for every
\* request with a `to`, contractInteractions is empty.
C22_CreationEntry ==
  /\ (CreationStepAnswered /\ IsCreationRequest) =>
       /\ Len(res.contractInteractions) = 1
       /\ res.contractInteractions[1].type = "creation"
       /\ {"bytecode", "estimatedAddress", "constructorArgs"}
            \subseteq DOMAIN res.contractInteractions[1]
  /\ (SimulateDone /\ req.to # UNDEF) => res.contractInteractions = <<>>

----------------------------------------------------------------------------
(* Properties of the block bounds of getTokenBalanceChanges *)

\* the bound a caller means by a block argument: 'latest' when it is
\* omitted, the integer it denotes otherwise
MeantBlock(b) ==
  IF b.kind = "undefined"
  THEN [latest |-> TRUE, number |-> 0]
  ELSE [latest |-> FALSE, number |-> ParseInt(b)]

\* C23 (as claimed): an omitted block bound becomes 'latest'; every supplied
\* numeric bound, including block 0 given as the number 0 or as the string
\* '0', is reported and queried as that integer; the report's and every
\* entry's fromBlock and toBlock equal the resolved bounds.
C23_BlockBounds ==
  BalanceDone =>
    /\ loc.fromBlock = MeantBlock(req.fromBlock)
    /\ loc.toBlock = MeantBlock(req.toBlock)
    /\ res.fromBlock = loc.fromBlock
    /\ res.toBlock = loc.toBlock
    /\ \A k \in 1..Len(res.changes) :
         /\ res.changes[k].fromBlock = loc.fromBlock
         /\ res.changes[k].toBlock = loc.toBlock

----------------------------------------------------------------------------
(* Properties of the entries of a balance report *)

\* the position of a token address in the registry
RegistryIndex(address) ==
  CHOOSE i \in 1..Len(TokenRegistry) : TokenRegistry[i].address = address

\* C24: in every entry of the report, changeType is 'increase' exactly when
\* the token's net signed sum (incoming minus outgoing event values) is
\* positive and 'decrease' exactly when it is negative; the change string
\* starts with '-' exactly for a decrease and is otherwise the magnitude of
\* the net sum scaled by the token's decimals; events.outgoing is the number
\* of transfer events from the address and events.incoming the number of
\* transfer events to it; entries appear in the order of the token registry.
C24_EntryDirection ==
  BalanceDone =>
    /\ \A i \in 1..Len(TokenRegistry) : \A k \in EntriesFor(i) :
         LET scan == obs.scans[i]
             entry == res.changes[k]
             incoming == IncomingOf(scan)
             outgoing == OutgoingOf(scan)
             positive == MagLess(outgoing, incoming)
             negative == MagLess(incoming, outgoing)
             magnitude == IF positive THEN MagSub(incoming, outgoing, 0)
                          ELSE MagSub(outgoing, incoming, 0)
             unsigned == FormatUnitsBig(BigOf(FALSE, magnitude), scan.decimals)
         IN /\ scan.ok
            /\ entry.changeType \in {"increase", "decrease"}
            /\ entry.changeType = "increase" <=> positive
            /\ entry.changeType = "decrease" <=> negative
            /\ entry.change =
                 (IF entry.changeType = "decrease" THEN "-" ELSE "") \o unsigned
            /\ entry.events.outgoing = Len(scan.outgoing)
            /\ entry.events.incoming = Len(scan.incoming)
            /\ entry.token = TokenRegistry[i].address
            /\ entry.symbol = TokenRegistry[i].symbol
    /\ \A k \in 1..(Len(res.changes) - 1) :
         RegistryIndex(res.changes[k].token) < RegistryIndex(res.changes[k + 1].token)

\* both registry tokens are reported, in registry order: the first lost
\* 1000000000000000001 in one outgoing event and gained 1 in each of two
\* incoming ones, a decrease although the incoming events are more numerous;
\* the second gained 1000000000000000001 in one incoming event and lost 1 in
\* each of three outgoing ones, an increase although the outgoing events are
\* more numerous
C24_Witness ==
  /\ BalanceDone
  /\ Len(res.changes) = 2
  /\ obs.scans[1].outgoing = <<LargeValue>>
  /\ obs.scans[1].incoming = <<BigInt(1), BigInt(1)>>
  /\ obs.scans[1].decimals = 6
  /\ res.changes[1].token = TokenRegistry[1].address
  /\ res.changes[1].symbol = "USDC"
  /\ res.changes[1].changeType = "decrease"
  /\ res.changes[1].change = "-999999999999.999999"
  /\ res.changes[1].events = [outgoing |-> 1, incoming |-> 2]
  /\ obs.scans[2].outgoing = <<BigInt(1), BigInt(1), BigInt(1)>>
  /\ obs.scans[2].incoming = <<LargeValue>>
  /\ obs.scans[2].decimals = DEFAULT_DECIMALS
  /\ res.changes[2].token = TokenRegistry[2].address
  /\ res.changes[2].symbol = "WETH"
  /\ res.changes[2].changeType = "increase"
  /\ res.changes[2].change = "0.999999999999999998"
  /\ res.changes[2].events = [outgoing |-> 3, incoming |-> 1]

----------------------------------------------------------------------------
(* Properties of the order of the event queries *)

\* how many times a provider or contract method has been called so far
Issued(method) == Cardinality({i \in 1..Len(calls) : calls[i] = method})

\* the outgoing query of the current token has been answered and the scan
\* has resumed after its await
OutgoingAnswered == op = "getTokenBalanceChanges" /\ pc = "eventsTo"

\* C25 (as claimed): the outgoing and the incoming event queries of a token
\* are issued concurrently and awaited jointly: both are in flight before
\* either result is awaited, so by the time the outgoing query is answered
\* the incoming query of the same token has been issued.
C25_QueriesConcurrent ==
  OutgoingAnswered => Issued("queryFilter(to)") = Issued("queryFilter(from)")

----------------------------------------------------------------------------
(* Properties of two calls in flight on one instance *)

\* the step resumes the suspended call and suspends the running one, each
\* exactly as it was
IsSwitch == other' = Locals /\ Locals' = other

\* the running call has settled: it returned or threw
Settled == ret # "none"

\* C26: operations share no mutable state.  No step of simulateTransaction,
\* analyzeTransaction, estimateGas or getTokenBalanceChanges writes a field
\* of the simulator instance; a step of the running call changes nothing of
\* the suspended or settled other call and is a step the running call could
\* take when run alone from the same locals, so each call returns what it
\* returns alone for the same responses; a settled call's result is not
\* changed by later steps.
C26_NoSharedMutableState ==
  [][ /\ self' = self
      /\ self = Constructed(Config)
      /\ other' # other => IsSwitch
      /\ other' = other => Next
      /\ Settled => (Locals' = Locals \/ IsSwitch) ]_vars

\* a simulation that took its sender from the connected signer is suspended
\* at its token metadata lookup while a balance scan is suspended at the
\* incoming query of the second token
C26_Witness ==
  /\ op = "simulateTransaction"
  /\ pc = "decimals"
  /\ tx.from = SIGNER
  /\ other.op = "getTokenBalanceChanges"
  /\ other.pc = "eventsTo"
  /\ other.loc.i = 2
  /\ other.loc.changes # <<>>

----------------------------------------------------------------------------
(* Properties of success and errorMessage *)

\* C27 (as claimed): success and errorMessage agree in every returned
\* result, for every combination of call outcome and re-estimate outcome:
\* success = true implies errorMessage is null, and success = false implies
\* errorMessage is not null.
C27_SuccessAgreesWithMessage ==
  SimulateDone =>
    /\ res.success => res.errorMessage = NULL
    /\ ~res.success => res.errorMessage # NULL

----------------------------------------------------------------------------
(* Properties of the estimated creation address *)

\* the sender addresses a creation can have, and the chain ids and nonces
\* the node can answer
CreationSenders == {SENDER, SIGNER}
ChainIds == {n[1] : n \in NetworkOutcomes \ {Undefined}}
Nonces == {out.value : out \in {o \in NonceOutcomes : o.ok}}

\* C28 (as claimed): the estimated address depends on chain id, sender and
\* nonce: a creation simulated on the same chain with the same nonce for a
\* different sender yields a different estimated address.
C28_AddressDependsOnSender ==
  (SimulateDone /\ res.contractInteractions # <<>>) =>
    \A chainId \in ChainIds, nonce \in Nonces :
      res.contractInteractions[1].estimatedAddress
          = EstimatedAddress(chainId, tx.from, nonce) =>
        \A sender \in CreationSenders \ {tx.from} :
          EstimatedAddress(chainId, sender, nonce)
            # res.contractInteractions[1].estimatedAddress

----------------------------------------------------------------------------
(* Properties of the errors of the server's token queries *)

QueryOps == {"getTokenBalance", "getMultiTokenBalance"}

\* the contract call of the query was rejected
ContractCallFailed == obs.failure \in ForeignErrors

\* C29 (as claimed): every error thrown by a token query of the server is
\* one of the server's typed errors: a validation error is re-thrown
\* unchanged with code INVALID_ADDRESS or INVALID_PARAMETERS, and every
\* failure of the underlying contract call, whatever name and code the
\* foreign error carries, is wrapped in a TransactionError with code
\* CONTRACT_ERROR.
C29_TypedErrors ==
  (op \in QueryOps /\ ret = "thrown") =>
    /\ err.name = "TransactionError"
    /\ IF ContractCallFailed
       THEN err.code = "CONTRACT_ERROR"
       ELSE err.code \in {"INVALID_ADDRESS", "INVALID_PARAMETERS"}

----------------------------------------------------------------------------
(* Properties of connectWallet of the server *)

\* C30 (as claimed): connectWallet is all-or-nothing.  With an empty key it
\* throws WALLET_NOT_CONNECTED before touching the wallet manager; with a
\* non-empty key that the wallet manager accepts it completes without error
\* after propagating the connection to the simulator, the contract templates
\* and the bridge; it never throws after the wallet manager has connected.
C30_ConnectAllOrNothing ==
  op = "connectWallet" =>
    /\ ~TruthyField(req.privateKey) =>
         /\ ret = "thrown"
         /\ err.name = "WalletError"
         /\ err.code = "WALLET_NOT_CONNECTED"
         /\ calls = <<>>
         /\ ~wallet.connected
    /\ wallet.connected => ret # "thrown"
    /\ (wallet.connected /\ pc = "done") =>
         /\ ret = "returned"
         /\ calls[Len(calls)] = "bridge.connectWallet"

====
